---- MODULE Spec2Model ----
(***************************************************************************)
(* Model of the lightc compiler: the type checker                          *)
(* (crates/type_checker/src/lib.rs), the shared type algebra               *)
(* (crates/common/src/lib.rs), the driver and the lexer.                   *)
(*                                                                         *)
(* The checker is a recursive visitor over the AST.  Every visit_* method  *)
(* is an operator that takes the node and the visitor state 'st'           *)
(*   st = [table : the symbol table (a stack of scopes, innermost last),   *)
(*         hint  : TypeChecker.hint,                                       *)
(*         log   : the calls made so far (check_node, insert)]             *)
(* and returns a result record                                             *)
(*   [tag : "Ok" | "Err" | "Panic", node, msg, st].                        *)
(* "Err" is Rust's Err(String) propagated by '?'; "Panic" is a halt of the *)
(* process (unreachable!, todo!, Option::unwrap on None).                  *)
(* TypeChecker::walk is a state machine, one step per top-level node,      *)
(* inside the state machine of the driver (crates/lightc/src/main.rs),     *)
(* which runs the stages one after the other: specification Spec.          *)
(* TypeSpec applies Type::resolve_type to lists of annotations; LexSpec is *)
(* the scan of the lexer over short texts.                                 *)
(***************************************************************************)
EXTENDS Integers, Sequences, FiniteSets, TLC

(***************************************************************************)
(* 64-bit unsigned values.  TLC integers are 32 bits wide, so a u64/usize  *)
(* is four 16-bit limbs, most significant first.                           *)
(***************************************************************************)
Limb == 2^16

U64(a, b, c, d) == <<a, b, c, d>>

FromNat(n) == <<0, 0, n \div Limb, n % Limb>>

U64Le(x, y) ==
    \/ x[1] < y[1]
    \/ x[1] = y[1] /\ x[2] < y[2]
    \/ x[1] = y[1] /\ x[2] = y[2] /\ x[3] < y[3]
    \/ x[1] = y[1] /\ x[2] = y[2] /\ x[3] = y[3] /\ x[4] <= y[4]

U64Add(x, y) ==
    LET s4 == x[4] + y[4]
        s3 == x[3] + y[3] + (s4 \div Limb)
        s2 == x[2] + y[2] + (s3 \div Limb)
        s1 == x[1] + y[1] + (s2 \div Limb)
    IN  <<s1 % Limb, s2 % Limb, s3 % Limb, s4 % Limb>>

\* 'x as u32 as usize': keep the low 32 bits
AsU32(x) == <<0, 0, x[3], x[4]>>

\* the decimal text of a value, as format!("{}") prints it
U64Text(x) ==
    IF x[1] = 0 /\ x[2] = 0 /\ x[3] < 32768
    THEN <<ToString(x[3] * Limb + x[4])>>
    ELSE <<"0x", ToString(x[1]), ":", ToString(x[2]), ":", ToString(x[3]), ":", ToString(x[4])>>

(***************************************************************************)
(* common::Type.  A type is a tuple: <<"Int32">>, <<"Comp", name>>,        *)
(* <<"Array", element type, length>>.                                      *)
(***************************************************************************)
Int8T == <<"Int8">>
Int16T == <<"Int16">>
Int32T == <<"Int32">>
Int64T == <<"Int64">>
UInt8T == <<"UInt8">>
UInt16T == <<"UInt16">>
UInt32T == <<"UInt32">>
UInt64T == <<"UInt64">>
FloatT == <<"Float">>
DoubleT == <<"Double">>
BoolT == <<"Bool">>
CharT == <<"Char">>
VoidT == <<"Void">>
ArrayT(ty, n) == <<"Array", ty, n>>
CompT(name) == <<"Comp", name>>

int_types == {Int8T, Int16T, Int32T, Int64T, UInt8T, UInt16T, UInt32T, UInt64T}
float_types == {FloatT, DoubleT}
numeric_types == int_types \cup float_types

TypeDefault == VoidT

\* Option<Type>
NoneTy == <<"None">>
SomeTy(ty) == <<"Some", ty>>
IsSome(o) == o[1] = "Some"
unwrap_or_default(o) == IF IsSome(o) THEN o[2] ELSE TypeDefault

\* resolve_type with the arm of `uint` copied from the arm of `int`
resolve_type_uint_as_int(s) ==
    CASE s = "int8" -> Int8T
      [] s = "int16" -> Int16T
      [] s = "int32" -> Int32T
      [] s = "int64" -> Int64T
      [] s = "uint8" -> UInt8T
      [] s = "uint16" -> UInt16T
      [] s = "uint32" -> UInt32T
      [] s = "uint64" -> UInt64T
      [] s = "float" -> FloatT
      [] s = "double" -> DoubleT
      [] s = "bool" -> BoolT
      [] s = "char" -> CharT
      [] s = "void" -> VoidT
      [] s = "int" -> Int32T
      [] s = "uint" -> Int32T
      [] OTHER -> CompT(s)

\* Type::resolve_type
resolve_type(s) ==
    CASE s = "int8" -> Int8T
      [] s = "int16" -> Int16T
      [] s = "int32" -> Int32T
      [] s = "int64" -> Int64T
      [] s = "uint8" -> UInt8T
      [] s = "uint16" -> UInt16T
      [] s = "uint32" -> UInt32T
      [] s = "uint64" -> UInt64T
      [] s = "float" -> FloatT
      [] s = "double" -> DoubleT
      [] s = "bool" -> BoolT
      [] s = "char" -> CharT
      [] s = "void" -> VoidT
      [] s = "int" -> Int32T
      [] s = "uint" -> UInt32T
      [] OTHER -> CompT(s)

\* to_ascii_lowercase of the Debug name of a primitive variant
LowerName(tag) ==
    CASE tag = "Int8" -> "int8"
      [] tag = "Int16" -> "int16"
      [] tag = "Int32" -> "int32"
      [] tag = "Int64" -> "int64"
      [] tag = "UInt8" -> "uint8"
      [] tag = "UInt16" -> "uint16"
      [] tag = "UInt32" -> "uint32"
      [] tag = "UInt64" -> "uint64"
      [] tag = "Float" -> "float"
      [] tag = "Double" -> "double"
      [] tag = "Bool" -> "bool"
      [] tag = "Char" -> "char"
      [] tag = "Void" -> "void"

\* format!("{:?}", ty).to_ascii_lowercase(); the text is a sequence of string
\* pieces.  Element types of arrays are primitives or arrays in this model.
RECURSIVE TypeDebugLower(_)
TypeDebugLower(ty) ==
    IF ty[1] = "Array"
    THEN <<"array(">> \o TypeDebugLower(ty[2]) \o <<", ", ToString(ty[3]), ")">>
    ELSE <<LowerName(ty[1])>>

\* impl Display for Type
TypeDisplay(ty) ==
    IF ty[1] = "Comp" THEN <<ty[2]>> ELSE TypeDebugLower(ty)

(***************************************************************************)
(* Symbols and the symbol table.  A scope is a function from names to      *)
(* symbols; the table is the sequence of scopes, outermost first.          *)
(***************************************************************************)
new_fn(name, args, ret_ty, is_extern) ==
    [name |-> name, data |-> "Fn", args |-> args, ret_ty |-> ret_ty, is_extern |-> is_extern]

new_var(name, ty) ==
    [name |-> name, data |-> "Var", ty |-> ty]

new_struct_sym(name, fields) ==
    [name |-> name, data |-> "Struct", fields |-> fields]

EmptyScope == [n \in {} |-> 0]

enter_scope(table) == Append(table, EmptyScope)

leave_scope(table) ==
    IF Len(table) = 0 THEN table ELSE SubSeq(table, 1, Len(table) - 1)

\* insert into the innermost scope, overwriting an entry of the same name
insert(table, sym) ==
    LET top == table[Len(table)]
        scope == [n \in DOMAIN top \cup {sym.name} |-> IF n = sym.name THEN sym ELSE top[n]]
    IN  [table EXCEPT ![Len(table)] = scope]

\* search innermost to outermost; <<>> is None, <<sym>> is Some(sym)
RECURSIVE get_from(_, _, _)
get_from(table, name, i) ==
    IF i = 0 THEN <<>>
    ELSE IF name \in DOMAIN table[i] THEN <<table[i][name]>>
    ELSE get_from(table, name, i - 1)

get(table, name) == get_from(table, name, Len(table))

(***************************************************************************)
(* Literals and AST nodes.  Every node record has a 'ty' field, the        *)
(* Option<Type> that AstNode::ty() returns.                                *)
(***************************************************************************)
\* Option<AstNode>: <<>> is None, <<n>> is Some(n)
NoneNode == <<>>
SomeNode(n) == <<n>>

LitInt(lk, v) == [lk |-> lk, v |-> v]
LitFloat(v) == [lk |-> "Float", v |-> v]
LitDouble(v) == [lk |-> "Double", v |-> v]
LitBool(v) == [lk |-> "Bool", v |-> v]
LitChar(v) == [lk |-> "Char", v |-> v]
\* Literal::Array { elements, inner_ty }.  The vector is 'elements' followed
\* by 'more' further copies of its last element (more = 0 for a vector that
\* is written out in full).
LitArray(elements, more, inner_ty) ==
    [lk |-> "Array", elements |-> elements, more |-> more, inner_ty |-> inner_ty]

\* elements.len()
ArrayLen(lit) == U64Add(FromNat(Len(lit.elements)), lit.more)

new_lit(value, ty) == [kind |-> "Lit", value |-> value, ty |-> ty]
new_ident(name, ty) == [kind |-> "Ident", name |-> name, ty |-> ty]
new_binop(op, lhs, rhs, ty) == [kind |-> "BinOp", op |-> op, lhs |-> lhs, rhs |-> rhs, ty |-> ty]
new_unop(op, rhs, ty) == [kind |-> "UnOp", op |-> op, rhs |-> rhs, ty |-> ty]
new_call(name, args, ty) == [kind |-> "Call", name |-> name, args |-> args, ty |-> ty]
new_index(binding, idx, ty) == [kind |-> "Index", binding |-> binding, idx |-> idx, ty |-> ty]
new_cond(cond_expr, then_block, else_block, ty) ==
    [kind |-> "Cond", cond_expr |-> cond_expr, then_block |-> then_block,
     else_block |-> else_block, ty |-> ty]
new_block(list, ty) == [kind |-> "Block", list |-> list, ty |-> ty]
\* the constructors below take no type: the node carries None
new_for(start_name, start_antn, start_expr, cond_expr, step_expr, body) ==
    [kind |-> "For", start_name |-> start_name, start_antn |-> start_antn,
     start_expr |-> start_expr, cond_expr |-> cond_expr, step_expr |-> step_expr,
     body |-> body, ty |-> NoneTy]
new_let(name, antn, init) ==
    [kind |-> "Let", name |-> name, antn |-> antn, init |-> init, ty |-> NoneTy]
new_fn_node(proto, body) ==
    [kind |-> "Fn", proto |-> proto, body |-> body, ty |-> NoneTy]
new_struct(name, fields, methods) ==
    [kind |-> "Struct", name |-> name, fields |-> fields, methods |-> methods, ty |-> NoneTy]

\* Prototype: name, args as <<name, type>> pairs, declared return type
Prototype(name, args, ret_ty, is_extern) ==
    [name |-> name, args |-> args, ret_ty |-> ret_ty, is_extern |-> is_extern]

\* AstNode::ty()
NodeTy(node) == node.ty

\* AstNode::is_num_literal()
is_num_literal(node) ==
    /\ node.kind = "Lit"
    /\ node.value.lk \in {"Int8", "Int16", "Int32", "Int64", "UInt8", "UInt16",
                          "UInt32", "UInt64", "Float", "Double"}

(***************************************************************************)
(* Results and visitor state                                               *)
(***************************************************************************)
Ok(node, st) == [tag |-> "Ok", node |-> node, msg |-> <<>>, st |-> st]
Err(msg, st) == [tag |-> "Err", node |-> NoneNode, msg |-> msg, st |-> st]
Panic(msg, st) == [tag |-> "Panic", node |-> NoneNode, msg |-> msg, st |-> st]

\* self.symbol_table.enter_scope() / leave_scope() / insert(..) on the visitor
st_enter(st) == [st EXCEPT !.table = enter_scope(@)]
st_leave(st) == [st EXCEPT !.table = leave_scope(@)]
st_insert(st, sym) ==
    [st EXCEPT !.table = insert(@, sym),
               !.log = Append(@, [ev |-> "insert", name |-> sym.name, ty |-> sym.ty,
                                  depth |-> Len(st.table)])]

\* The character U+0060 (grave accent) of the error messages; a TLA+ string
\* cannot hold it, so it is a piece of its own.
Bt == "<backtick>"

\* Operator's Display
OpText(op) ==
    CASE op = "Add" -> "+" [] op = "AddEq" -> "+=" [] op = "Assign" -> "="
      [] op = "And" -> "&&" [] op = "BitAnd" -> "&" [] op = "BitOr" -> "|"
      [] op = "BitXor" -> "^" [] op = "Dec" -> "--" [] op = "Div" -> "/"
      [] op = "DivEq" -> "/=" [] op = "Eq" -> "==" [] op = "Gt" -> ">"
      [] op = "GtEq" -> ">=" [] op = "Inc" -> "++" [] op = "Lt" -> "<"
      [] op = "LtEq" -> "<=" [] op = "Mul" -> "*" [] op = "MulEq" -> "*="
      [] op = "Not" -> "!" [] op = "NotEq" -> "!=" [] op = "Or" -> "||"
      [] op = "Pow" -> "**" [] op = "RetType" -> "->" [] op = "Sub" -> "-"
      [] op = "SubEq" -> "-="

(***************************************************************************)
(* Literal narrowing                                                       *)
(***************************************************************************)
\* <int type>::MAX as a u64
IntMax(w) ==
    CASE w = "Int8" -> U64(0, 0, 0, 2^7 - 1)
      [] w = "Int16" -> U64(0, 0, 0, 2^15 - 1)
      [] w = "Int32" -> U64(0, 0, 2^15 - 1, 2^16 - 1)
      [] w = "Int64" -> U64(2^15 - 1, 2^16 - 1, 2^16 - 1, 2^16 - 1)
      [] w = "UInt8" -> U64(0, 0, 0, 2^8 - 1)
      [] w = "UInt16" -> U64(0, 0, 0, 2^16 - 1)
      [] w = "UInt32" -> U64(0, 0, 2^16 - 1, 2^16 - 1)
      [] w = "UInt64" -> U64(2^16 - 1, 2^16 - 1, 2^16 - 1, 2^16 - 1)

\* the bits of a u64 that an integer of type w stores
Narrow(v, w) ==
    CASE w \in {"Int8", "UInt8"} -> U64(0, 0, 0, v[4] % 2^8)
      [] w \in {"Int16", "UInt16"} -> U64(0, 0, 0, v[4])
      [] w \in {"Int32", "UInt32"} -> U64(0, 0, v[3], v[4])
      [] w \in {"Int64", "UInt64"} -> v

\* <w>::try_from(v) for a u64 v: <<>> on overflow, else <<narrowed value>>
try_from(v, w) ==
    IF U64Le(v, IntMax(w)) THEN <<Narrow(v, w)>> ELSE <<>>

OutOfRange == <<"Numeric literal out of range">>

\* convert_num!(v, Variant, ty) on a u64 literal: (Literal::Variant(v), Type::Variant)
\* or the '?' return of "Numeric literal out of range"
convert_num(v, w, st) ==
    LET c == try_from(v, w)
    IN  IF c = <<>> THEN Err(OutOfRange, st)
        ELSE Ok(new_lit(LitInt(w, c[1]), SomeTy(<<w>>)), st)

\* a visit_lit whose Int8 arm converts with the unsigned type
HintWidthInt8AsU8(hint) == IF hint = Int8T THEN "UInt8" ELSE hint[1]

\* the integer width a u64 literal is converted to under an integer hint
\* (visit_lit, the arms Type::Int8 .. Type::UInt64)
HintWidth(hint) == hint[1]

\* init_literal!(Variant, value)
init_literal(antn) ==
    CASE antn \in int_types -> new_lit(LitInt(antn[1], FromNat(0)), SomeTy(antn))
      [] antn = FloatT -> new_lit(LitFloat("0.0"), SomeTy(antn))
      [] antn = DoubleT -> new_lit(LitDouble("0.0"), SomeTy(antn))
      [] antn = CharT -> new_lit(LitChar(0), SomeTy(antn))
      [] antn = BoolT -> new_lit(LitBool(FALSE), SomeTy(antn))
      [] antn[1] = "Array" ->
            new_lit(LitArray(<<>>, FromNat(0), SomeTy(antn[2])), SomeTy(antn))

(***************************************************************************)
(* The visitor                                                             *)
(***************************************************************************)
RECURSIVE visit_node(_, _)

\* Wrapper for visit_node() to handle hint updates
check_node(node, hint, st) ==
    LET st1 == [st EXCEPT !.hint = hint,
                          !.log = Append(@, [ev |-> "check_node", node |-> node,
                                             before |-> st.hint, hint |-> hint])]
        r == visit_node(node, st1)
    IN  [r EXCEPT !.st.log = Append(@, [ev |-> "return", tag |-> r.tag,
                                        before |-> st.hint, after |-> r.st.hint,
                                        ty |-> IF r.tag = "Ok" THEN NodeTy(r.node)
                                               ELSE NoneTy])]

\* check_lit_array: the size test 'elements.len() as u32 as usize > size'
array_too_big(lit, size) == ~U64Le(AsU32(ArrayLen(lit)), FromNat(size))

\* check_lit_array: the loop over the elements
RECURSIVE check_elements(_, _, _, _, _)
check_elements(elements, ty, i, chkd, st) ==
    IF i > Len(elements) THEN [tag |-> "Ok", nodes |-> chkd, msg |-> <<>>, st |-> st]
    ELSE LET r == check_node(elements[i], SomeTy(ty), st)
         IN  IF r.tag # "Ok" THEN [tag |-> r.tag, nodes |-> chkd, msg |-> r.msg, st |-> r.st]
             ELSE IF unwrap_or_default(NodeTy(r.node)) # ty
             THEN [tag |-> "Err", nodes |-> chkd,
                   msg |-> <<"Array literal's element wrong type: ", Bt, "<node>", Bt, " isn't a ", Bt>>
                           \o TypeDisplay(ty) \o <<Bt>>,
                   st |-> r.st]
             ELSE check_elements(elements, ty, i + 1, Append(chkd, r.node), r.st)

check_lit_array(lit, ty_hint, st) ==
    IF lit.lk # "Array" THEN Panic(<<"expected array literal">>, st)
    ELSE IF ~IsSome(ty_hint)
    THEN Panic(<<"called ", Bt, "Option::unwrap()", Bt, " on a ", Bt, "None", Bt, " value">>, st)
    ELSE IF ty_hint[2][1] # "Array"
    THEN Panic(<<"array literal has invalid type hint ", Bt>> \o TypeDisplay(ty_hint[2]) \o <<Bt>>, st)
    ELSE LET ty == ty_hint[2][2]
             size == ty_hint[2][3]
         IN  IF array_too_big(lit, size)
             THEN Err(<<"Array literal too big in assignment: ", Bt>> \o U64Text(ArrayLen(lit))
                      \o <<Bt, " > ", Bt, ToString(size), Bt>>, st)
             ELSE LET r == check_elements(lit.elements, ty, 1, <<>>, st)
                  IN  IF r.tag = "Err" THEN Err(r.msg, r.st)
                      ELSE IF r.tag = "Panic" THEN Panic(r.msg, r.st)
                      ELSE Ok(new_lit(LitArray(r.nodes, lit.more, SomeTy(ty)),
                                      SomeTy(ArrayT(ty, size))), r.st)

\* a check_var_init that accepts an initializer of any type
antn_matches_any(antn, init_ty) == TRUE

\* check_var_init: the comparison of the annotation with the initializer's type
antn_matches(antn, init_ty) == antn = init_ty

\* Helper for variable initializations
check_var_init(name, init, antn, caller, st) ==
    IF init # NoneNode
    THEN LET r == check_node(init[1], SomeTy(antn), st)
         IN  IF r.tag # "Ok" THEN r
             ELSE LET init_ty == unwrap_or_default(NodeTy(r.node))
                  IN  IF ~antn_matches(antn, init_ty)
                      THEN Err(<<"Types don't match in ", caller, ". ", Bt, name,
                                 Bt, " annotated with ", Bt>> \o TypeDisplay(antn)
                               \o <<Bt, " but initial value is ", Bt>> \o TypeDisplay(init_ty)
                               \o <<Bt>>, r.st)
                      ELSE r
    ELSE IF antn = VoidT
         THEN Panic(<<"void type for variable initialization annotation">>, st)
         ELSE IF antn[1] = "Comp" THEN Panic(<<"not yet implemented">>, st)
         ELSE Ok(init_literal(antn), st)

visit_for(stmt, st) ==
    \* Insert starting variable
    LET st1 == st_insert(st_enter(st), new_var(stmt.start_name, stmt.start_antn))
        r1 == check_var_init(stmt.start_name, stmt.start_expr, stmt.start_antn,
                             "for statement", st1)
    IN  IF r1.tag # "Ok" THEN r1 ELSE
        \* Ensure the loop cond is always a bool
        LET r2 == check_node(stmt.cond_expr, NoneTy, r1.st)
        IN  IF r2.tag # "Ok" THEN r2 ELSE
            IF unwrap_or_default(NodeTy(r2.node)) # BoolT
            THEN Err(<<"For loop conditional should always be a bool">>, r2.st) ELSE
            \* Make sure the step type matches the starting variable
            LET r3 == check_node(stmt.step_expr, SomeTy(stmt.start_antn), r2.st)
            IN  IF r3.tag # "Ok" THEN r3 ELSE
                LET step_ty == unwrap_or_default(NodeTy(r3.node))
                IN  IF step_ty # stmt.start_antn
                    THEN Err(<<"Step type mismatch in for statement. Step is ", Bt>>
                             \o TypeDisplay(step_ty) \o <<Bt, " but ", Bt, stmt.start_name, Bt,
                             " is ", Bt>> \o TypeDisplay(stmt.start_antn) \o <<Bt>>, r3.st) ELSE
                    \* Check body
                    LET r4 == check_node(stmt.body, NoneTy, r3.st)
                    IN  IF r4.tag # "Ok" THEN r4 ELSE
                        Ok(new_for(stmt.start_name, stmt.start_antn, SomeNode(r1.node),
                                   r2.node, r3.node, r4.node),
                           st_leave(r4.st))

\* visit_let with the insert moved after the check of the initializer
visit_let_binds_after_init(stmt, st) ==
    LET r == check_var_init(stmt.name, stmt.init, stmt.antn, "let statement", st)
    IN  IF r.tag # "Ok" THEN r
        ELSE Ok(new_let(stmt.name, stmt.antn, SomeNode(r.node)),
                st_insert(r.st, new_var(stmt.name, stmt.antn)))

visit_let(stmt, st) ==
    LET st1 == st_insert(st, new_var(stmt.name, stmt.antn))
        r == check_var_init(stmt.name, stmt.init, stmt.antn, "let statement", st1)
    IN  IF r.tag # "Ok" THEN r
        ELSE Ok(new_let(stmt.name, stmt.antn, SomeNode(r.node)), r.st)

\* visit_fn: Insert args into the local scope table
RECURSIVE insert_args(_, _, _)
insert_args(args, i, st) ==
    IF i > Len(args) THEN st
    ELSE insert_args(args, i + 1, st_insert(st, new_var(args[i][1], args[i][2])))

\* a visit_fn that accepts an annotated main()
main_ret_ok_any(ret_ty) == TRUE

\* visit_fn: the test of main()'s annotation
main_ret_ok(ret_ty) == ret_ty = VoidT

\* visit_fn: the scope entered for the arguments is left after the checks
fn_leave(st) == st_leave(st)

visit_fn(stmt, st) ==
    LET proto == stmt.proto
        fn_entry == get(st.table, proto.name)
    IN  IF fn_entry = <<>>
        THEN Panic(<<"missing symbol table entry for function: ", proto.name>>, st) ELSE
        \* If body is None, this is an extern and no checking is needed
        IF stmt.body = NoneNode THEN Ok(new_fn_node(proto, NoneNode), st) ELSE
        \* Creates interstitial scope for the arguments in the function definition
        LET st1 == insert_args(proto.args, 1, st_enter(st))
            r == check_node(stmt.body[1], NoneTy, st1)
        IN  IF r.tag # "Ok" THEN r ELSE
            LET body_ty == unwrap_or_default(NodeTy(r.node))
                entry == fn_entry[1]
            IN  IF proto.name = "main" /\ ~main_ret_ok(proto.ret_ty)
                THEN Err(<<"main()'s return value shouldn't be annotated. Found ", Bt>>
                         \o TypeDisplay(proto.ret_ty) \o <<Bt>>, r.st) ELSE
                \* Symbol::ret_ty() on a symbol that is no function
                IF entry.data # "Fn"
                THEN Panic(<<"expected symbol to be a function">>, r.st) ELSE
                LET proto1 == IF proto.name = "main"
                              THEN [proto EXCEPT !.ret_ty = VoidT]
                              ELSE [proto EXCEPT !.ret_ty = entry.ret_ty]
                IN  \* Make sure function return type and the last statement match
                    IF entry.ret_ty # body_ty /\ entry.ret_ty # VoidT /\ proto.name # "main"
                    THEN Err(<<"Function ", Bt, proto.name, Bt, " should return type ", Bt>>
                             \o TypeDisplay(entry.ret_ty) \o <<Bt, " but last statement is ", Bt>>
                             \o TypeDisplay(body_ty) \o <<Bt>>, r.st)
                    ELSE Ok(new_fn_node(proto1, SomeNode(r.node)), fn_leave(r.st))

\* a loop `for node in nodes { chkd.push(self.check_node(node, None)?) }`;
\* list_ty is the type of the last node checked (used by visit_block)
RECURSIVE check_list(_, _, _, _, _)
check_list(nodes, i, chkd, list_ty, st) ==
    IF i > Len(nodes)
    THEN [tag |-> "Ok", nodes |-> chkd, list_ty |-> list_ty, msg |-> <<>>, st |-> st]
    ELSE LET r == check_node(nodes[i], NoneTy, st)
         IN  IF r.tag # "Ok"
             THEN [tag |-> r.tag, nodes |-> chkd, list_ty |-> list_ty, msg |-> r.msg, st |-> r.st]
             ELSE check_list(nodes, i + 1, Append(chkd, r.node),
                             unwrap_or_default(NodeTy(r.node)), r.st)

\* the `?` of a loop: the failure of a list result as a node result
Fail(r) == [tag |-> r.tag, node |-> NoneNode, msg |-> r.msg, st |-> r.st]

visit_struct(stmt, st) ==
    LET rf == check_list(stmt.fields, 1, <<>>, VoidT, st)
    IN  IF rf.tag # "Ok" THEN Fail(rf) ELSE
        LET rm == check_list(stmt.methods, 1, <<>>, VoidT, rf.st)
        IN  IF rm.tag # "Ok" THEN Fail(rm)
            ELSE Ok(new_struct(stmt.name, rf.nodes, rm.nodes), rm.st)

\* a visit_lit that retags an integer literal under a float hint
lit_uint64_hint_floats(v, hint, st) ==
    CASE hint \in int_types -> convert_num(v, HintWidth(hint), st)
      [] hint = FloatT -> Ok(new_lit(LitFloat(v), SomeTy(FloatT)), st)
      [] hint = DoubleT -> Ok(new_lit(LitDouble(v), SomeTy(DoubleT)), st)
      [] hint = BoolT -> Err(<<"Literal is an integer in a bool context">>, st)
      [] hint = CharT -> Err(<<"Literal is an integer in a char context">>, st)
      [] hint[1] = "Array" -> Err(<<"Literal is an integer in an array context">>, st)
      [] hint = VoidT -> Err(<<"Literal is an integer in a void context">>, st)
      [] hint[1] = "Comp" -> Err(<<"Literal is an integer in a compound context">>, st)

\* visit_lit: a UInt64 literal under a hint
lit_uint64_hint(v, hint, st) ==
    CASE hint \in int_types -> convert_num(v, HintWidth(hint), st)
      [] hint \in float_types -> Err(<<"Literal is an integer in a float context">>, st)
      [] hint = BoolT -> Err(<<"Literal is an integer in a bool context">>, st)
      [] hint = CharT -> Err(<<"Literal is an integer in a char context">>, st)
      [] hint[1] = "Array" -> Err(<<"Literal is an integer in an array context">>, st)
      [] hint = VoidT -> Err(<<"Literal is an integer in a void context">>, st)
      [] hint[1] = "Comp" -> Err(<<"Literal is an integer in a compound context">>, st)

\* visit_lit: a Float literal under a hint
lit_float_hint(v, hint, st) ==
    CASE hint = FloatT -> Ok(new_lit(LitFloat(v), SomeTy(FloatT)), st)
      [] hint = DoubleT -> Ok(new_lit(LitDouble(v), SomeTy(DoubleT)), st)
      [] hint \in int_types -> Err(<<"Literal is a float in an integer context">>, st)
      [] hint = BoolT -> Err(<<"Literal is a float in a bool context">>, st)
      [] hint = CharT -> Err(<<"Literal is a float in a char context">>, st)
      [] hint[1] = "Array" -> Err(<<"Literal is a float in an array context">>, st)
      [] OTHER -> Panic(<<"float conversion error">>, st)

\* If there's a type hint (in self.hint), use it or fail. If not, use the
\* literal's type.
visit_lit(expr, st) ==
    LET lit == expr.value
        lk == lit.lk
    IN  IF IsSome(st.hint)
        THEN CASE lk \in {"Int8", "Int16", "Int32", "Int64", "UInt8", "UInt16", "UInt32"} ->
                      Ok(new_lit(lit, SomeTy(<<lk>>)), st)
               [] lk = "UInt64" -> lit_uint64_hint(lit.v, st.hint[2], st)
               [] lk = "Float" -> lit_float_hint(lit.v, st.hint[2], st)
               [] lk = "Double" -> Ok(new_lit(lit, SomeTy(DoubleT)), st)
               [] lk = "Bool" -> Ok(new_lit(lit, SomeTy(BoolT)), st)
               [] lk = "Char" -> Ok(new_lit(lit, SomeTy(CharT)), st)
               [] lk = "Array" -> check_lit_array(lit, st.hint, st)
        ELSE CASE lk = "Int32" -> Ok(new_lit(lit, SomeTy(Int32T)), st)
               [] lk = "UInt64" -> convert_num(lit.v, "Int32", st)
               [] lk = "Float" -> Ok(new_lit(lit, SomeTy(FloatT)), st)
               [] lk = "Bool" -> Ok(new_lit(lit, SomeTy(BoolT)), st)
               [] lk = "Char" -> Ok(new_lit(lit, SomeTy(CharT)), st)
               [] lk = "Array" -> check_lit_array(lit, NoneTy, st)
               [] OTHER -> Panic(<<"numeric conversion error">>, st)

visit_ident(expr, st) ==
    LET sym == get(st.table, expr.name)
    IN  IF sym = <<>> THEN Err(<<"Unknown variable: ", Bt, expr.name, Bt>>, st)
        \* Symbol::ty() on a symbol that is no variable
        ELSE IF sym[1].data # "Var" THEN Panic(<<"expected symbol to be a variable">>, st)
        ELSE Ok(new_ident(expr.name, SomeTy(sym[1].ty)), st)

\* a visit_binop without the comparison of the operand types
binop_types_match_any(lhs_ty, rhs_ty) == TRUE

\* visit_binop: Both sides must match
binop_types_match(lhs_ty, rhs_ty) == lhs_ty = rhs_ty

InvalidCombination(op, lhs_ty, rhs_ty) ==
    <<"Invalid type combination found in ", Bt, OpText(op), Bt, " operation: (lhs: ", Bt>>
    \o TypeDisplay(lhs_ty) \o <<Bt, ", rhs: ", Bt>> \o TypeDisplay(rhs_ty) \o <<Bt, ")">>

\* visit_binop: Check the operand types based on the operator used and set
\* the expression type accordingly
binop_ty(op, lhs, rhs, lhs_ty, rhs_ty, st) ==
    CASE op \in {"And", "Or"} ->
            IF lhs_ty # BoolT \/ rhs_ty # BoolT
            THEN Err(<<"Expected bools on either side of ", Bt, OpText(op), Bt, ", got lhs: ", Bt>>
                     \o TypeDisplay(lhs_ty) \o <<Bt, ", rhs: ", Bt>> \o TypeDisplay(rhs_ty)
                     \o <<Bt>>, st)
            ELSE Ok(new_binop(op, lhs, rhs, SomeTy(BoolT)), st)
      [] op \in {"Eq", "NotEq"} ->
            IF /\ lhs_ty \in numeric_types \cup {BoolT, CharT}
               /\ rhs_ty \in numeric_types \cup {BoolT, CharT}
            THEN Ok(new_binop(op, lhs, rhs, SomeTy(BoolT)), st)
            ELSE Err(InvalidCombination(op, lhs_ty, rhs_ty), st)
      [] op \in {"Gt", "GtEq", "Lt", "LtEq"} ->
            IF /\ lhs_ty \in numeric_types \cup {CharT}
               /\ rhs_ty \in numeric_types \cup {CharT}
            THEN Ok(new_binop(op, lhs, rhs, SomeTy(BoolT)), st)
            ELSE Err(InvalidCombination(op, lhs_ty, rhs_ty), st)
      [] op \in {"Add", "Div", "Mul", "Pow", "Sub", "BitAnd", "BitXor", "BitOr"} ->
            IF lhs_ty \in numeric_types /\ rhs_ty \in numeric_types
            THEN Ok(new_binop(op, lhs, rhs, SomeTy(lhs_ty)), st)
            ELSE Err(InvalidCombination(op, lhs_ty, rhs_ty), st)
      [] OTHER -> Ok(new_binop(op, lhs, rhs, SomeTy(VoidT)), st)

\* binop_rhs_first when the RHS goes first only if the LHS is the one
\* numeric literal of the two operands
binop_rhs_first_exactly_one(expr) == is_num_literal(expr.lhs) /\ ~is_num_literal(expr.rhs)

\* visit_binop: `if expr.lhs.is_num_literal()`, the RHS is checked first,
\* without a hint
binop_rhs_first(expr) == is_num_literal(expr.lhs)

visit_binop(expr, st) ==
    \* Make sure LHS is a var in assignments
    IF expr.op = "Assign" /\ expr.lhs.kind \notin {"Ident", "Index"}
    THEN Err(<<"Expected LHS to be a variable for assignment">>, st) ELSE
    \* Check if either side is a numeric literal. If so use the other side
    \* as a type hint for the literal type.
    LET rhs_first == binop_rhs_first(expr)
        first == IF rhs_first THEN expr.rhs ELSE expr.lhs
        second == IF rhs_first THEN expr.lhs ELSE expr.rhs
        r1 == check_node(first, NoneTy, st)
    IN  IF r1.tag # "Ok" THEN r1 ELSE
        LET first_ty == unwrap_or_default(NodeTy(r1.node))
            r2 == check_node(second, SomeTy(first_ty), r1.st)
        IN  IF r2.tag # "Ok" THEN r2 ELSE
            LET second_ty == unwrap_or_default(NodeTy(r2.node))
                chkd_lhs == IF rhs_first THEN r2.node ELSE r1.node
                chkd_rhs == IF rhs_first THEN r1.node ELSE r2.node
                lhs_ty == IF rhs_first THEN second_ty ELSE first_ty
                rhs_ty == IF rhs_first THEN first_ty ELSE second_ty
            IN  IF ~binop_types_match(lhs_ty, rhs_ty)
                THEN Err(<<"Mismatched types in binop: ", Bt>> \o TypeDisplay(lhs_ty)
                         \o <<Bt, " != ", Bt>> \o TypeDisplay(rhs_ty) \o <<Bt>>, r2.st)
                ELSE binop_ty(expr.op, chkd_lhs, chkd_rhs, lhs_ty, rhs_ty, r2.st)

visit_unop(expr, st) ==
    LET r == check_node(expr.rhs, NoneTy, st)
    IN  IF r.tag # "Ok" THEN r ELSE
        LET rhs_ty == unwrap_or_default(NodeTy(r.node))
        IN  IF rhs_ty \notin numeric_types
            THEN Err(<<"Expected numeric type in unary operation ", Bt, OpText(expr.op), Bt,
                       ", got rhs: ", Bt>> \o TypeDisplay(rhs_ty) \o <<Bt>>, r.st)
            ELSE Ok(new_unop(expr.op, r.node, SomeTy(rhs_ty)), r.st)

\* a visit_call that only rejects a call with too many arguments
call_arity_ok_at_most(fe_args_len, args_len) == fe_args_len >= args_len

\* visit_call: Check arg length
call_arity_ok(fe_args_len, args_len) == fe_args_len = args_len

\* visit_call: Check all args, with the function entry arg types as hints
RECURSIVE check_args(_, _, _, _, _)
check_args(args, fe_arg_tys, idx, chkd, st) ==
    IF idx > Len(args) THEN [tag |-> "Ok", nodes |-> chkd, msg |-> <<>>, st |-> st]
    ELSE LET r == check_node(args[idx], SomeTy(fe_arg_tys[idx]), st)
         IN  IF r.tag # "Ok" THEN [tag |-> r.tag, nodes |-> chkd, msg |-> r.msg, st |-> r.st]
             ELSE check_args(args, fe_arg_tys, idx + 1, Append(chkd, r.node), r.st)

\* visit_call: the first position where the types of zip(fe_arg_tys, arg_tys)
\* differ, 0 if there is none
RECURSIVE first_mismatch(_, _, _)
first_mismatch(fe_arg_tys, arg_tys, idx) ==
    IF idx > Len(fe_arg_tys) \/ idx > Len(arg_tys) THEN 0
    ELSE IF fe_arg_tys[idx] # arg_tys[idx] THEN idx
    ELSE first_mismatch(fe_arg_tys, arg_tys, idx + 1)

visit_call(expr, st) ==
    \* Pull the function for the call from the table
    LET sym == get(st.table, expr.name)
    IN  IF sym = <<>>
        THEN Err(<<"Call to undefined function: ", Bt, expr.name, Bt>>, st) ELSE
        \* Symbol::arg_tys() on a symbol that is no function
        IF sym[1].data # "Fn" THEN Panic(<<"expected symbol to be a function">>, st) ELSE
        LET fn_entry == sym[1]
            fe_arg_tys == [i \in 1..Len(fn_entry.args) |-> fn_entry.args[i][2]]
            fe_args_len == Len(fe_arg_tys)
            args_len == Len(expr.args)
        IN  IF ~call_arity_ok(fe_args_len, args_len)
            THEN Err(<<"Call to ", Bt, expr.name, "()", Bt, " takes ", ToString(fe_args_len),
                       " args and ", ToString(args_len), " were given">>, st) ELSE
            LET r == check_args(expr.args, fe_arg_tys, 1, <<>>, st)
            IN  IF r.tag # "Ok" THEN Fail(r) ELSE
                LET arg_tys == [i \in 1..Len(r.nodes) |-> unwrap_or_default(NodeTy(r.nodes[i]))]
                    bad == first_mismatch(fe_arg_tys, arg_tys, 1)
                IN  IF bad # 0
                    THEN Err(<<"Type mismatch in arg ", ToString(bad), " of call to ", Bt,
                               expr.name, "()", Bt, ": ", Bt>> \o TypeDisplay(fe_arg_tys[bad])
                             \o <<Bt, " != ", Bt>> \o TypeDisplay(arg_tys[bad]) \o <<Bt>>, r.st)
                    ELSE Ok(new_call(expr.name, r.nodes, SomeTy(fn_entry.ret_ty)), r.st)

visit_cond(expr, st) ==
    LET rc == check_node(expr.cond_expr, NoneTy, st)
    IN  IF rc.tag # "Ok" THEN rc ELSE
        IF unwrap_or_default(NodeTy(rc.node)) # BoolT
        THEN Err(<<"Conditional should always be a bool">>, rc.st) ELSE
        LET rt == check_node(expr.then_block, NoneTy, rc.st)
        IN  IF rt.tag # "Ok" THEN rt ELSE
            LET then_ty == unwrap_or_default(NodeTy(rt.node))
            IN  \* Consequent and alternate must match if else exists
                IF expr.else_block = NoneNode
                THEN Ok(new_cond(rc.node, rt.node, NoneNode, SomeTy(then_ty)), rt.st) ELSE
                LET re == check_node(expr.else_block[1], SomeTy(then_ty), rt.st)
                IN  IF re.tag # "Ok" THEN re ELSE
                    LET else_ty == unwrap_or_default(NodeTy(re.node))
                    IN  IF then_ty # else_ty
                        THEN Err(<<"Both arms of conditional must be the same type: ", Bt,
                                   "then", Bt, " == ", Bt>> \o TypeDisplay(then_ty)
                                 \o <<Bt, "; ", Bt, "else", Bt, " == ", Bt>>
                                 \o TypeDisplay(else_ty) \o <<Bt>>, re.st)
                        ELSE Ok(new_cond(rc.node, rt.node, SomeNode(re.node), SomeTy(then_ty)),
                                re.st)

\* a visit_block that returns without leave_scope
block_leave_skipped(st) == st

\* visit_block: the scope entered for the block is left after the loop
block_leave(st) == st_leave(st)

\* Check the block expressions.
visit_block(expr, st) ==
    LET r == check_list(expr.list, 1, <<>>, VoidT, st_enter(st))
    IN  IF r.tag # "Ok" THEN Fail(r)
        ELSE Ok(new_block(r.nodes, SomeTy(r.list_ty)), block_leave(r.st))

visit_index(expr, st) ==
    LET rb == check_node(expr.binding, NoneTy, st)
    IN  IF rb.tag # "Ok" THEN rb ELSE
        LET bty == unwrap_or_default(NodeTy(rb.node))
        IN  IF bty[1] # "Array"
            THEN Err(<<"Can't index ", Bt>> \o TypeDisplay(bty) \o <<Bt>>, rb.st) ELSE
            LET binding_ty == bty[2]
                ri == check_node(expr.idx, SomeTy(Int32T), rb.st)
            IN  IF ri.tag # "Ok" THEN ri ELSE
                LET idx_ty == unwrap_or_default(NodeTy(ri.node))
                IN  IF idx_ty \notin int_types
                    THEN Err(<<"Array index must be an ", Bt, "int", Bt, ", found ", Bt>>
                             \o TypeDisplay(idx_ty) \o <<Bt>>, ri.st)
                    ELSE IF idx_ty # Int32T
                    THEN Err(<<"Index must be an int32 (for now)">>, ri.st)
                    ELSE Ok(new_index(rb.node, ri.node, SomeTy(binding_ty)), ri.st)

\* node.accept(self): the visit method of the node's variant
visit_node(node, st) ==
    CASE node.kind = "For" -> visit_for(node, st)
      [] node.kind = "Let" -> visit_let(node, st)
      [] node.kind = "Fn" -> visit_fn(node, st)
      [] node.kind = "Struct" -> visit_struct(node, st)
      [] node.kind = "Lit" -> visit_lit(node, st)
      [] node.kind = "Ident" -> visit_ident(node, st)
      [] node.kind = "BinOp" -> visit_binop(node, st)
      [] node.kind = "UnOp" -> visit_unop(node, st)
      [] node.kind = "Call" -> visit_call(node, st)
      [] node.kind = "Cond" -> visit_cond(node, st)
      [] node.kind = "Block" -> visit_block(node, st)
      [] node.kind = "Index" -> visit_index(node, st)

(***************************************************************************)
(* Input programs: what the parser hands to the checker.  Literals carry   *)
(* no type yet and integer literals are UInt64.                            *)
(***************************************************************************)
MaxArgs == 3        \* most arguments of a call
MaxElems == 3       \* most elements written out in an array literal
MaxSize == 2        \* largest declared array length
MaxNest == 2        \* deepest nesting of blocks in the scope programs

N(v) == new_lit(LitInt("UInt64", v), NoneTy)
Num(n) == N(FromNat(n))
Flt(v) == new_lit(LitFloat(v), NoneTy)
Bool(v) == new_lit(LitBool(v), NoneTy)
Chr(v) == new_lit(LitChar(v), NoneTy)
Arr(elements, more) == new_lit(LitArray(elements, more, NoneTy), NoneTy)
Id(name) == new_ident(name, NoneTy)
Bin(op, lhs, rhs) == new_binop(op, lhs, rhs, NoneTy)
Un(op, rhs) == new_unop(op, rhs, NoneTy)
Call(name, args) == new_call(name, args, NoneTy)
Index(binding, idx) == new_index(binding, idx, NoneTy)
Cond(c, t, e) == new_cond(c, t, e, NoneTy)
Block(list) == new_block(list, NoneTy)
Let(name, antn, init) == new_let(name, antn, init)
For(name, antn, init, cond, step, body) == new_for(name, antn, init, cond, step, body)
Fn(name, args, ret_ty, body) ==
    new_fn_node(Prototype(name, args, ret_ty, body = NoneNode), body)
Struct(name, fields, methods) == new_struct(name, fields, methods)

\* values at the edges of every integer width
Boundary ==
    { U64(0, 0, 0, 0), U64(0, 0, 0, 2^7 - 1), U64(0, 0, 0, 2^7), U64(0, 0, 0, 2^8 - 1),
      U64(0, 0, 0, 2^8), U64(0, 0, 0, 2^15 - 1), U64(0, 0, 0, 2^15), U64(0, 0, 0, 2^16 - 1),
      U64(0, 0, 1, 0), U64(0, 0, 2^15 - 1, 2^16 - 1), U64(0, 0, 2^15, 0),
      U64(0, 0, 2^16 - 1, 2^16 - 1), U64(0, 1, 0, 0), U64(0, 1, 0, 5),
      U64(2^15 - 1, 2^16 - 1, 2^16 - 1, 2^16 - 1), U64(2^15, 0, 0, 0),
      U64(2^16 - 1, 2^16 - 1, 2^16 - 1, 2^16 - 1) }

Two31 == U64(0, 0, 2^15, 0)
Two32 == U64(0, 1, 0, 0)

SeqsUpTo(S, n) == UNION {[1..k -> S] : k \in 0..n}

\* the parameters of the function that holds the statement under test
Params == << <<"a", Int32T>>, <<"b", BoolT>>, <<"c", FloatT>>, <<"arr", ArrayT(Int32T, 2)>>,
             <<"f8", UInt8T>> >>

\* extern f(p: int32, q: bool) -> int32
ExternF == Fn("f", << <<"p", Int32T>>, <<"q", BoolT>> >>, Int32T, NoneNode)

AnnTypes == int_types \cup {FloatT, DoubleT, BoolT, CharT, VoidT, CompT("S"), ArrayT(Int32T, 2)}

Inits ==
    {SomeNode(N(v)) : v \in Boundary}
    \cup {SomeNode(Flt("3.14")), SomeNode(Bool(TRUE)), SomeNode(Chr(65)),
          SomeNode(Arr(<<Num(1), Num(2)>>, FromNat(0))), SomeNode(Id("a")),
          SomeNode(Id("x")), SomeNode(Id("u")), NoneNode}

LetStmts ==
    {Let("x", antn, init) : antn \in AnnTypes, init \in Inits}
    \cup {Let("a", antn, SomeNode(Id("a"))) : antn \in AnnTypes}

ForStmts ==
    {For("i", antn, init, cond, step, Block(body)) :
        antn \in {Int32T, UInt8T, BoolT},
        init \in {SomeNode(Num(0)), SomeNode(Bool(TRUE)), SomeNode(Num(300)), NoneNode},
        cond \in {Bin("Lt", Id("i"), Num(10)), Bool(TRUE), Num(1), Id("u")},
        step \in {Bin("Assign", Id("i"), Bin("Add", Id("i"), Num(1))),
                  Bin("Add", Id("i"), Num(1)), Bool(FALSE), Id("u")},
        body \in {<<>>, <<Id("i")>>, <<Id("u")>>}}

Operands ==
    {Id("a"), Id("b"), Id("c"), Id("arr"), Id("f8"), Id("u"), Id("f"), Num(1), N(Two31), Flt("1.5"),
     Bool(TRUE), Chr(65), Arr(<<Num(1), Num(2)>>, FromNat(0))}

BinOps == {"Add", "Eq", "Lt", "And", "Assign", "AddEq", "Pow"}

BinStmts ==
    {Bin(op, l, r) : op \in BinOps, l \in Operands, r \in Operands}
    \cup {Bin(op, Bin("Add", Id("a"), Num(1)), r) : op \in {"Add", "Eq"}, r \in Operands}
    \cup {Bin(op, l, Bin("Eq", Num(1), Id("f8"))) : op \in {"Add", "Eq", "And"}, l \in Operands}

UnStmts == {Un(op, r) : op \in {"Sub", "Not", "Inc"}, r \in Operands}

CallArgs == {Num(1), Bool(TRUE), N(Two31)}

CallStmts ==
    {Call(name, args) : name \in {"f", "h", "a", "g"}, args \in SeqsUpTo(CallArgs, MaxArgs)}
    \cup {Bin("Add", Call("f", <<Num(1), Bool(FALSE)>>), r) : r \in Operands}
    \cup {Call("f", <<Call("f", <<Id("a"), Id("b")>>), x>>) : x \in Operands}

IndexStmts == {Index(bnd, idx) : bnd \in Operands, idx \in Operands}

Branches == {Block(<<>>), Block(<<Num(1)>>), Block(<<Bool(TRUE)>>), Block(<<Id("u")>>),
             Block(<<Let("y", Int32T, NoneNode)>>)}

CondStmts ==
    {Cond(c, t, e) : c \in {Bool(TRUE), Num(1), Id("b"), Id("u")}, t \in Branches,
                     e \in {NoneNode} \cup {SomeNode(b) : b \in Branches}}

ArrElems == {Num(1), Bool(TRUE), N(Two31)}

ArrStmts ==
    {Let("xs", ArrayT(ty, size), SomeNode(Arr(els, more))) :
        ty \in {Int32T, BoolT, UInt8T}, size \in 0..MaxSize,
        els \in SeqsUpTo(ArrElems, MaxElems), more \in {FromNat(0)}}
    \cup {Let("xs", ArrayT(Int32T, size), SomeNode(Arr(<<Num(1)>>, more))) :
            size \in 0..MaxSize,
            more \in {FromNat(1), FromNat(2), U64(0, 0, 2^16 - 1, 2^16 - 1), Two32,
                      U64(0, 1, 0, 1), U64(0, 1, 0, 2)}}
    \cup {Let("xs", Int32T, SomeNode(Arr(<<Num(1)>>, FromNat(0)))),
          Arr(<<>>, FromNat(0)), Arr(<<Num(1)>>, FromNat(0)),
          Call("f", <<Arr(<<Num(1)>>, FromNat(0)), Bool(TRUE)>>)}

\* blocks nested up to MaxNest deep, around statements that succeed or fail
RECURSIVE Nested(_)
Nested(d) ==
    IF d = 0 THEN {Num(1), Id("u"), Let("z", Int32T, NoneNode)}
    ELSE LET inner == Nested(d - 1)
         IN  inner
             \cup {Block(<<x>>) : x \in inner}
             \cup {For("i", Int32T, NoneNode, Bool(TRUE), Id("i"), Block(<<x>>)) : x \in inner}
             \cup {Cond(Bool(TRUE), Block(<<x>>), NoneNode) : x \in inner}

Stmts ==
    LetStmts \cup ForStmts \cup BinStmts \cup UnStmts \cup CallStmts \cup IndexStmts
    \cup CondStmts \cup ArrStmts \cup Nested(MaxNest)

\* extern f(..) -> int32   fn g(a, b, c, arr, f8) { stmt }
StmtPrograms == {<<ExternF, Fn("g", Params, VoidT, SomeNode(Block(<<stmt>>)))>> : stmt \in Stmts}

Bodies ==
    {<<>>, <<Num(0)>>, <<Bool(TRUE)>>, <<Id("u")>>, <<Let("x", Int32T, SomeNode(Num(3)))>>,
     <<Let("x", Int32T, SomeNode(Bin("Add", Num(3), Num(4))))>>,
     <<Let("x", Int32T, SomeNode(Num(3))), Id("x")>>,
     <<Let("y", DoubleT, SomeNode(Call("cos", <<Flt("3.14")>>)))>>,
     <<Call("f", <<Num(1)>>)>>, <<Arr(<<Num(1), Num(2)>>, FromNat(0))>>,
     <<Block(<<Let("x", Int32T, NoneNode)>>), Id("x")>>}

RetTypes == {VoidT, Int32T, BoolT, CompT("S")}

\* extern cos(x: double) -> double   fn f(a, b) -> int32 { a + b }   fn NAME() -> RET { body }
FnPrograms ==
    {<<Fn("cos", << <<"x", DoubleT>> >>, DoubleT, NoneNode),
       Fn("f", << <<"a", Int32T>>, <<"b", Int32T>> >>, Int32T,
          SomeNode(Block(<<Bin("Add", Id("a"), Id("b"))>>))),
       Fn(name, <<>>, ret, SomeNode(Block(body)))>> :
        name \in {"main", "g"}, ret \in RetTypes, body \in Bodies}
    \cup {<<Fn("main", <<>>, ret, NoneNode)>> : ret \in RetTypes}

\* struct S { fields  methods }   fn main() { body }
StructPrograms ==
    {<<Struct("S", fields, methods), Fn("main", <<>>, VoidT, SomeNode(Block(body)))>> :
        fields \in {<<>>, <<Let("a", Int32T, NoneNode)>>,
                    <<Let("a", Int32T, NoneNode), Let("m", BoolT, SomeNode(Num(1)))>>},
        methods \in {<<>>, <<Fn("m", << <<"p", Int32T>> >>, Int32T,
                               SomeNode(Block(<<Id("p")>>)))>>,
                     <<Fn("m", <<>>, BoolT, SomeNode(Block(<<Id("a")>>)))>>},
        body \in {<<>>, <<Id("a")>>, <<Call("m", <<Num(1)>>)>>}}

Programs == StmtPrograms \cup FnPrograms \cup StructPrograms

\* The parser installs every fn, extern fn and struct declaration in the
\* global scope before checking begins (methods included).
RECURSIVE install(_, _, _)
install(table, decls, i) ==
    IF i > Len(decls) THEN table
    ELSE LET d == decls[i]
         IN  IF d.kind = "Fn"
             THEN install(insert(table, new_fn(d.proto.name, d.proto.args, d.proto.ret_ty,
                                               d.proto.is_extern)), decls, i + 1)
             ELSE IF d.kind = "Struct"
             THEN install(install(insert(table, new_struct_sym(d.name, d.fields)),
                                  d.methods, 1), decls, i + 1)
             ELSE install(table, decls, i + 1)

\* SymbolTable::new() followed by the parse of the program
ParsedTable(prog) == install(<<EmptyScope>>, prog, 1)

(***************************************************************************)
(* The driver (crates/lightc/src/main.rs) and TypeChecker::walk as a state *)
(* machine.  The lexer, the parser, the lowering and the code generator    *)
(* are called by main through their Result: what they return is an input.  *)
(***************************************************************************)
VARIABLES
    program,        \* the Ast handed to walk (never changes)
    nodes,          \* ast.into_nodes(): the nodes not yet visited
    typed_ast,      \* the nodes added to typed_ast so far
    symbol_table,   \* the shared symbol table
    hint,           \* TypeChecker.hint
    log,            \* the check_node calls, their returns, and the inserts
    result,         \* "Running", or how walk ended: [tag, msg]
    pc,             \* where main is: the stage it runs next, or "exit"
    stage_log,      \* the stages main has started, each with its outcome
    stderr,         \* the messages written to standard error
    exit_code,      \* <<>> while the process runs, then <<code>>
    source,         \* the text the lexer scans, a sequence of characters
    pos,            \* the lexer's position in the text
    tokens,         \* the tokens scanned so far
    lex_result,     \* "Running", "Ok", or the LexError
    annotations,    \* type annotations still to resolve (Option<&str>)
    resolved        \* the annotations resolved so far, each with its Type

checker_vars == <<program, nodes, typed_ast, symbol_table, hint, log, result>>
driver_vars == <<pc, stage_log, stderr, exit_code>>
lexer_vars == <<source, pos, tokens, lex_result>>
type_vars == <<annotations, resolved>>
vars == <<checker_vars, driver_vars, lexer_vars, type_vars>>

\* the lexer before it is given a text
LexerIdle == source = <<>> /\ pos = 1 /\ tokens = <<>> /\ lex_result = "Idle"

\* no annotation to resolve
TypesIdle == annotations = <<>> /\ resolved = <<>>

\* the driver and the checker before main runs
MainIdle ==
    /\ program = <<>>
    /\ nodes = <<>>
    /\ typed_ast = <<>>
    /\ symbol_table = <<EmptyScope>>
    /\ hint = NoneTy
    /\ log = <<>>
    /\ result = [tag |-> "Running", msg |-> <<>>]
    /\ stage_log = <<>>
    /\ stderr = <<>>
    /\ exit_code = <<>>

\* main after `let mut symbol_table = SymbolTable::new()`
Init ==
    /\ MainIdle
    /\ pc = "lex"
    /\ LexerIdle
    /\ TypesIdle

Stage(name, outcome) == [stage |-> name, outcome |-> outcome]

\* the Display text of an error returned by a stage other than the checker
StageErrors == [lex |-> "InvalidNum", parse |-> "unexpected token",
                lower |-> "unrepresentable construct", codegen |-> "codegen error"]

\* eprintln!(..); process::exit(1)
exit_with_error(msg) ==
    /\ stderr' = Append(stderr, msg)
    /\ exit_code' = <<1>>
    /\ pc' = "exit"

\* a panic of the main thread: the message goes to standard error and the
\* process ends with Rust's panic status
panicked(msg) ==
    /\ stderr' = Append(stderr, <<"thread 'main' panicked: ">> \o msg)
    /\ exit_code' = <<101>>
    /\ pc' = "exit"

\* Lex::new(&source).scan().unwrap_or_else(..)
LexStage ==
    /\ pc = "lex"
    /\ \E outcome \in {"Ok", "Err"} :
          /\ stage_log' = Append(stage_log, Stage("lex", outcome))
          /\ IF outcome = "Ok"
             THEN pc' = "parse" /\ UNCHANGED <<stderr, exit_code>>
             ELSE exit_with_error(<<"Lexing error: ", StageErrors.lex>>)
    /\ UNCHANGED <<checker_vars, lexer_vars, type_vars>>

\* Parse::new(&tokens, &mut symbol_table).parse().unwrap_or_else(..): the
\* parser returns an Ast and has installed its declarations in the table
ParseStage ==
    /\ pc = "parse"
    /\ \E outcome \in {"Ok", "Err"} :
          /\ stage_log' = Append(stage_log, Stage("parse", outcome))
          /\ IF outcome = "Ok"
             THEN /\ program' \in Programs
                  /\ symbol_table' = ParsedTable(program')
                  /\ pc' = "tych"
                  /\ UNCHANGED <<stderr, exit_code>>
             ELSE /\ exit_with_error(<<"Parsing error: ", StageErrors.parse>>)
                  /\ UNCHANGED <<program, symbol_table>>
    /\ UNCHANGED <<nodes, typed_ast, hint, log, result, lexer_vars, type_vars>>

\* Tych::new(&mut symbol_table).walk(ast): the checker is built with no hint
\* and walk takes the nodes of the Ast
TychStage ==
    /\ pc = "tych"
    /\ stage_log' = Append(stage_log, Stage("tych", "Started"))
    /\ nodes' = program
    /\ typed_ast' = <<>>
    /\ hint' = NoneTy
    /\ pc' = "walk"
    /\ UNCHANGED <<program, symbol_table, log, result, stderr, exit_code, lexer_vars, type_vars>>

\* the visitor as it is when the loop of walk reaches the next node
Visitor == [table |-> symbol_table, hint |-> hint, log |-> log]

\* node.accept(&mut self) of the loop in walk
Accepted == visit_node(Head(nodes), Visitor)

\* walk: `let typed_node = node.accept(&mut self)?; typed_ast.add(typed_node)`
WalkNode ==
    /\ pc = "walk"
    /\ result.tag = "Running"
    /\ nodes # <<>>
    /\ Accepted.tag = "Ok"
    /\ typed_ast' = Append(typed_ast, Accepted.node)
    /\ nodes' = Tail(nodes)
    /\ symbol_table' = Accepted.st.table
    /\ hint' = Accepted.st.hint
    /\ log' = Accepted.st.log
    /\ UNCHANGED <<program, result>>
    /\ UNCHANGED <<driver_vars, lexer_vars, type_vars>>

\* walk: the `?` returns the error of the node
WalkErr ==
    /\ pc = "walk"
    /\ result.tag = "Running"
    /\ nodes # <<>>
    /\ Accepted.tag = "Err"
    /\ result' = [tag |-> "Err", msg |-> Accepted.msg]
    /\ symbol_table' = Accepted.st.table
    /\ hint' = Accepted.st.hint
    /\ log' = Accepted.st.log
    /\ UNCHANGED <<program, nodes, typed_ast>>
    /\ UNCHANGED <<driver_vars, lexer_vars, type_vars>>

\* a panic inside the visit halts the process
WalkPanic ==
    /\ pc = "walk"
    /\ result.tag = "Running"
    /\ nodes # <<>>
    /\ Accepted.tag = "Panic"
    /\ result' = [tag |-> "Panic", msg |-> Accepted.msg]
    /\ symbol_table' = Accepted.st.table
    /\ hint' = Accepted.st.hint
    /\ log' = Accepted.st.log
    /\ UNCHANGED <<program, nodes, typed_ast>>
    /\ UNCHANGED <<driver_vars, lexer_vars, type_vars>>

\* walk: Ok(typed_ast)
WalkReturn ==
    /\ pc = "walk"
    /\ result.tag = "Running"
    /\ nodes = <<>>
    /\ result' = [tag |-> "Ok", msg |-> <<>>]
    /\ UNCHANGED <<program, nodes, typed_ast, symbol_table, hint, log>>
    /\ UNCHANGED <<driver_vars, lexer_vars, type_vars>>

\* main with the result of walk: `.unwrap_or_else(|e| { eprintln!(..); exit(1) })`
TychDone ==
    /\ pc = "walk"
    /\ result.tag # "Running"
    /\ stage_log' = [stage_log EXCEPT ![Len(stage_log)].outcome = result.tag]
    /\ CASE result.tag = "Ok" -> pc' = "lower" /\ UNCHANGED <<stderr, exit_code>>
         [] result.tag = "Err" -> exit_with_error(<<"Type checking error: ">> \o result.msg)
         [] result.tag = "Panic" -> panicked(result.msg)
    /\ UNCHANGED <<checker_vars, lexer_vars, type_vars>>

\* Lower::new(&mut symbol_table).walk(typed_ast).unwrap_or_else(..)
LowerStage ==
    /\ pc = "lower"
    /\ \E outcome \in {"Ok", "Err"} :
          /\ stage_log' = Append(stage_log, Stage("lower", outcome))
          /\ IF outcome = "Ok"
             THEN pc' = "codegen" /\ UNCHANGED <<stderr, exit_code>>
             ELSE exit_with_error(<<"Lowering error: ", StageErrors.lower>>)
    /\ UNCHANGED <<checker_vars, lexer_vars, type_vars>>

\* Codegen::run(..).unwrap_or_else(|e| panic!("Error compiling `{}`: {}", ..))
CodegenStage ==
    /\ pc = "codegen"
    /\ \E outcome \in {"Ok", "Err"} :
          /\ stage_log' = Append(stage_log, Stage("codegen", outcome))
          /\ IF outcome = "Ok"
             THEN pc' = "emit" /\ UNCHANGED <<stderr, exit_code>>
             ELSE panicked(<<"Error compiling ", Bt, "FILE", Bt, ": ", StageErrors.codegen>>)
    /\ UNCHANGED <<checker_vars, lexer_vars, type_vars>>

\* `if args.compile_only`: the object file is copied next to the source and
\* the process exits with 0
CopyObject ==
    /\ pc = "emit"
    /\ \E copied \in BOOLEAN :
          IF copied
          THEN exit_code' = <<0>> /\ pc' = "exit" /\ UNCHANGED stderr
          ELSE panicked(<<"Error copying object file">>)
    /\ UNCHANGED stage_log
    /\ UNCHANGED <<checker_vars, lexer_vars, type_vars>>

\* otherwise clang is spawned and waited for; the exit status of clang is
\* not looked at, and main returns
Link ==
    /\ pc = "emit"
    /\ \E clang \in {"linked", "link failed", "not spawned", "not waited"} :
          CASE clang \in {"linked", "link failed"} ->
                  exit_code' = <<0>> /\ pc' = "exit" /\ UNCHANGED stderr
            [] clang = "not spawned" -> panicked(<<"Error compiling">>)
            [] clang = "not waited" -> panicked(<<"Error waiting on clang">>)
    /\ UNCHANGED stage_log
    /\ UNCHANGED <<checker_vars, lexer_vars, type_vars>>

Next ==
    \/ LexStage \/ ParseStage \/ TychStage
    \/ WalkNode \/ WalkErr \/ WalkPanic \/ WalkReturn
    \/ TychDone \/ LowerStage \/ CodegenStage \/ CopyObject \/ Link

Spec == Init /\ [][Next]_vars

(***************************************************************************)
(* Type::resolve_type and Type::default applied to a list of annotations   *)
(* (common/src/lib.rs).  An annotation is Option<&str>: <<>> where the     *)
(* source gives no type, <<name>> where it gives one.                      *)
(***************************************************************************)
MaxAnnotations == 2     \* most annotations resolved in one run

TypeNames ==
    {"int8", "int16", "int32", "int64", "uint8", "uint16", "uint32", "uint64",
     "float", "double", "bool", "char", "void", "int", "uint",
     "Int32", "INT32", "Int", "Uint", "uInt32", "Float", "Void", "VOID", "Bool",
     "", "S", "integer", "unsigned", "int3", "int128", "i32", "u8", "f64", "string"}

Annotations == {<<>>} \cup {<<name>> : name \in TypeNames}

TypeInit ==
    /\ annotations \in SeqsUpTo(Annotations, MaxAnnotations)
    /\ resolved = <<>>
    /\ MainIdle
    /\ pc = "idle"
    /\ LexerIdle

\* ty.map(Type::resolve_type).unwrap_or_default() of the next annotation
Resolve ==
    /\ annotations # <<>>
    /\ LET antn == Head(annotations)
           ty == IF antn = <<>> THEN TypeDefault ELSE resolve_type(antn[1])
       IN  resolved' = Append(resolved, [antn |-> antn, ty |-> ty])
    /\ annotations' = Tail(annotations)
    /\ UNCHANGED <<checker_vars, driver_vars, lexer_vars>>

TypeNext == Resolve

TypeSpec == TypeInit /\ [][TypeNext]_vars

(***************************************************************************)
(* The lexer.  A text is a sequence of characters (one-character strings); *)
(* a token is [kind, text, at], 'at' being the index of its first          *)
(* character.  One step of the scan is lex_step; Lex::scan repeats it      *)
(* until the end of the text or the first error.                           *)
(***************************************************************************)
Letters == {"a", "b", "e", "f", "l", "n", "o", "t", "x", "_"}
Digits == {"0", "1", "4"}
Whitespace == {" ", "\t", "\r", "\n"}
Punctuators == {"(", ")", "{", "}", ",", ";", ":", "[", "]"}
Operators1 == {"+", "-", "*", "/", "=", "<", ">", "!", "&", "|", "^"}
Operators2 ==
    {<<"=", "=">>, <<"!", "=">>, <<"<", "=">>, <<">", "=">>, <<"+", "=">>, <<"-", "=">>,
     <<"*", "=">>, <<"/", "=">>, <<"&", "&">>, <<"|", "|">>, <<"+", "+">>, <<"-", "-">>,
     <<"*", "*">>, <<"-", ">">>}
Keywords ==
    {<<"f", "n">>, <<"l", "e", "t">>, <<"e", "x", "t", "e", "r", "n">>, <<"i", "f">>,
     <<"e", "l", "s", "e">>, <<"f", "o", "r">>, <<"s", "t", "r", "u", "c", "t">>}
BoolWords == {<<"t", "r", "u", "e">>, <<"f", "a", "l", "s", "e">>}

\* the first index from pos on whose character is not in S (Len + 1 if none)
RECURSIVE run_end(_, _, _)
run_end(src, i, S) ==
    IF i > Len(src) \/ src[i] \notin S THEN i ELSE run_end(src, i + 1, S)

\* the index of the newline that ends the line of pos (Len + 1 if none)
RECURSIVE end_of_line(_, _)
end_of_line(src, i) ==
    IF i > Len(src) \/ src[i] = "\n" THEN i ELSE end_of_line(src, i + 1)

\* comment_at with the bound off by one: a `//` that ends the text is missed
comment_at_off_by_one(src, i) == src[i] = "/" /\ i + 1 < Len(src) /\ src[i + 1] = "/"

\* a comment starts at position i: the two characters there are //
comment_at(src, i) == src[i] = "/" /\ i < Len(src) /\ src[i + 1] = "/"

Token(kind, src, i, e) == [tag |-> "Token", tok |-> [kind |-> kind, text |-> SubSeq(src, i, e - 1), at |-> i], pos |-> e]
Skip(e) == [tag |-> "Skip", tok |-> <<>>, pos |-> e]
LexError(e) == [tag |-> "Err", tok |-> <<>>, pos |-> e]

lex_ident(src, i) ==
    LET e == run_end(src, i, Letters \cup Digits)
        text == SubSeq(src, i, e - 1)
    IN  Token(IF text \in Keywords THEN "Keyword"
              ELSE IF text \in BoolWords THEN "Bool" ELSE "Ident", src, i, e)

lex_number(src, i) ==
    LET e == run_end(src, i, Digits \cup {"."})
    IN  IF e <= Len(src) /\ src[e] \in Letters
        THEN LexError("InvalidNum")
        ELSE Token(IF \E k \in i..(e - 1) : src[k] = "." THEN "Float" ELSE "Int", src, i, e)

lex_char(src, i) ==
    IF i + 2 <= Len(src) /\ src[i + 1] # "\\" /\ src[i + 2] = "'"
    THEN Token("Char", src, i, i + 3)
    ELSE IF /\ i + 3 <= Len(src)
            /\ src[i + 1] = "\\"
            /\ src[i + 2] \in {"n", "t", "\\", "'", "0"}
            /\ src[i + 3] = "'"
    THEN Token("Char", src, i, i + 4)
    ELSE LexError("UnterminatedChar")

lex_operator(src, i) ==
    IF i < Len(src) /\ SubSeq(src, i, i + 1) \in Operators2
    THEN Token("Op", src, i, i + 2)
    ELSE Token("Op", src, i, i + 1)

\* a comment is consumed up to, not including, the newline that ends it
lex_comment(src, i) == Skip(end_of_line(src, i))

\* one step of the scan at position i <= Len(src)
lex_step(src, i) ==
    LET c == src[i]
    IN  IF c \in Whitespace THEN Skip(i + 1)
        ELSE IF comment_at(src, i) THEN lex_comment(src, i)
        ELSE IF c \in Letters THEN lex_ident(src, i)
        ELSE IF c \in Digits THEN lex_number(src, i)
        ELSE IF c = "'" THEN lex_char(src, i)
        ELSE IF c \in Operators1 THEN lex_operator(src, i)
        ELSE IF c \in Punctuators THEN Token("Punct", src, i, i + 1)
        ELSE LexError("UnknownChar")

\* Lex::scan as a function: [result, tokens]
RECURSIVE scan_from(_, _, _)
scan_from(src, i, toks) ==
    IF i > Len(src) THEN [result |-> "Ok", tokens |-> toks]
    ELSE LET r == lex_step(src, i)
         IN  CASE r.tag = "Skip" -> scan_from(src, r.pos, toks)
               [] r.tag = "Token" -> scan_from(src, r.pos, Append(toks, r.tok))
               [] r.tag = "Err" -> [result |-> r.pos, tokens |-> toks]

scan(src) == scan_from(src, 1, <<>>)

MaxSrc == 8     \* longest text given to the lexer

Alphabet == {"/", "\n", "a", "1"}

Sources == SeqsUpTo(Alphabet, MaxSrc)

\* Lex::new(&source)
LexInit ==
    /\ source \in Sources
    /\ pos = 1
    /\ tokens = <<>>
    /\ lex_result = "Running"
    /\ MainIdle
    /\ pc = "idle"
    /\ TypesIdle

Scanning == lex_result = "Running" /\ pos <= Len(source)

LexWhitespace ==
    /\ Scanning
    /\ source[pos] \in Whitespace
    /\ pos' = lex_step(source, pos).pos
    /\ UNCHANGED <<source, tokens, lex_result>>
    /\ UNCHANGED <<checker_vars, driver_vars, type_vars>>

LexComment ==
    /\ Scanning
    /\ comment_at(source, pos)
    /\ pos' = lex_step(source, pos).pos
    /\ UNCHANGED <<source, tokens, lex_result>>
    /\ UNCHANGED <<checker_vars, driver_vars, type_vars>>

LexToken ==
    /\ Scanning
    /\ lex_step(source, pos).tag = "Token"
    /\ tokens' = Append(tokens, lex_step(source, pos).tok)
    /\ pos' = lex_step(source, pos).pos
    /\ UNCHANGED <<source, lex_result>>
    /\ UNCHANGED <<checker_vars, driver_vars, type_vars>>

LexFail ==
    /\ Scanning
    /\ lex_step(source, pos).tag = "Err"
    /\ lex_result' = lex_step(source, pos).pos
    /\ UNCHANGED <<source, pos, tokens>>
    /\ UNCHANGED <<checker_vars, driver_vars, type_vars>>

LexEnd ==
    /\ lex_result = "Running"
    /\ pos > Len(source)
    /\ lex_result' = "Ok"
    /\ UNCHANGED <<source, pos, tokens>>
    /\ UNCHANGED <<checker_vars, driver_vars, type_vars>>

LexNext == LexWhitespace \/ LexComment \/ LexToken \/ LexFail \/ LexEnd

LexSpec == LexInit /\ [][LexNext]_vars

(***************************************************************************)
(* Vocabulary of the properties                                            *)
(***************************************************************************)
\* Option<AstNode> as a sequence of 0 or 1 nodes
Opt(o) == o

\* the children of a node, in source order
Children(n) ==
    CASE n.kind = "Lit" -> IF n.value.lk = "Array" THEN n.value.elements ELSE <<>>
      [] n.kind = "Ident" -> <<>>
      [] n.kind = "BinOp" -> <<n.lhs, n.rhs>>
      [] n.kind = "UnOp" -> <<n.rhs>>
      [] n.kind = "Call" -> n.args
      [] n.kind = "Index" -> <<n.binding, n.idx>>
      [] n.kind = "Cond" -> <<n.cond_expr, n.then_block>> \o Opt(n.else_block)
      [] n.kind = "Block" -> n.list
      [] n.kind = "For" -> Opt(n.start_expr) \o <<n.cond_expr, n.step_expr, n.body>>
      [] n.kind = "Let" -> Opt(n.init)
      [] n.kind = "Fn" -> Opt(n.body)
      [] n.kind = "Struct" -> n.fields \o n.methods

\* the node and all its descendants, as a sequence
RECURSIVE Subnodes(_)
RECURSIVE SubnodesOfAll(_, _)
SubnodesOfAll(list, i) ==
    IF i > Len(list) THEN <<>> ELSE Subnodes(list[i]) \o SubnodesOfAll(list, i + 1)
Subnodes(n) == <<n>> \o SubnodesOfAll(Children(n), 1)

\* every node of the typed AST built so far
TypedNodes == SubnodesOfAll(typed_ast, 1)

Range(seq) == {seq[i] : i \in 1..Len(seq)}

Terminated == result.tag # "Running"

\* the program is `extern f ..  fn g(a, b, c, arr, f8) { stmt }`
IsStmtProgram ==
    /\ Len(program) = 2
    /\ program[2].kind = "Fn"
    /\ program[2].proto.name = "g"
    /\ program[2].proto.args = Params

\* the statement of such a program, and what the checker made of it
Stmt == program[2].body[1].list[1]
TypedStmt == typed_ast[2].body[1].list[1]

(***************************************************************************)
(* Properties                                                              *)
(***************************************************************************)

\* C1: when walk returns Ok, the scope stack is as deep as it was when walk
\* was called: every enter_scope of visit_fn, visit_for and visit_block was
\* matched by a leave_scope.
C1_ScopeDepthRestored ==
    result.tag = "Ok" => Len(symbol_table) = Len(ParsedTable(program))

\* C1 witness: an accepted program with a for loop and a block inside the
\* block of a function body
C1_Witness ==
    /\ result.tag = "Ok"
    /\ \E i \in 1..Len(typed_ast) :
          /\ typed_ast[i].kind = "Fn"
          /\ typed_ast[i].body # NoneNode
          /\ \E j \in 1..Len(Subnodes(typed_ast[i])) :
                LET n == Subnodes(typed_ast[i])[j]
                IN  /\ n.kind = "For"
                    /\ \E k \in 1..Len(n.body.list) : n.body.list[k].kind = "Block"

\* C2: in the AST of an accepted program every node, of every variant and
\* at every depth, carries Some(type).
C2_EveryNodeTyped ==
    result.tag = "Ok" => \A i \in 1..Len(TypedNodes) : IsSome(NodeTy(TypedNodes[i]))

\* the declared type of a parameter of g
ParamTy(name) ==
    CASE name = "a" -> Int32T [] name = "b" -> BoolT [] name = "c" -> FloatT
      [] name = "arr" -> ArrayT(Int32T, 2) [] name = "f8" -> UInt8T

IsParam(n) == n.kind = "Ident" /\ n.name \in {"a", "b", "c", "arr", "f8"}

\* C3: every BinOp node of the typed AST has operands of equal resolved
\* type, and a binary operation on two variables of different types ends in
\* the error "Mismatched types in binop: `<lhs>` != `<rhs>`".
C3_BinopOperandTypesEqual ==
    /\ \A i \in 1..Len(TypedNodes) :
          LET n == TypedNodes[i]
          IN  n.kind = "BinOp" =>
                  unwrap_or_default(NodeTy(n.lhs)) = unwrap_or_default(NodeTy(n.rhs))
    /\ (Terminated /\ IsStmtProgram /\ Stmt.kind = "BinOp" /\ IsParam(Stmt.lhs)
        /\ IsParam(Stmt.rhs) /\ ParamTy(Stmt.lhs.name) # ParamTy(Stmt.rhs.name))
       => result = [tag |-> "Err",
                    msg |-> <<"Mismatched types in binop: ", Bt>>
                            \o TypeDisplay(ParamTy(Stmt.lhs.name)) \o <<Bt, " != ", Bt>>
                            \o TypeDisplay(ParamTy(Stmt.rhs.name)) \o <<Bt>>]

\* C3 witness: an accepted binop whose literal operand was narrowed to the
\* type of the other operand
C3_Witness ==
    /\ result.tag = "Ok"
    /\ \E i \in 1..Len(TypedNodes) :
          LET n == TypedNodes[i]
          IN  /\ n.kind = "BinOp"
              /\ n.lhs.kind = "Lit"
              /\ NodeTy(n.lhs) = SomeTy(UInt8T)
              /\ NodeTy(n.rhs) = SomeTy(UInt8T)

\* the symbol the parser installed for a name in the global scope
Declared(name) == ParsedTable(program)[1][name]

\* C4: every Call node of the typed AST has as many arguments as its callee
\* declares parameters, the i-th argument has the type of the i-th
\* parameter, and a call of f (declared with 2 parameters) with another
\* number of arguments ends in "Call to `f()` takes 2 args and <m> were given".
C4_CallMatchesDeclaration ==
    /\ \A i \in 1..Len(TypedNodes) :
          LET n == TypedNodes[i]
          IN  n.kind = "Call" =>
                /\ n.name \in DOMAIN ParsedTable(program)[1]
                /\ Declared(n.name).data = "Fn"
                /\ Len(n.args) = Len(Declared(n.name).args)
                /\ \A k \in 1..Len(n.args) :
                      unwrap_or_default(NodeTy(n.args[k])) = Declared(n.name).args[k][2]
    /\ (Terminated /\ IsStmtProgram /\ Stmt.kind = "Call" /\ Stmt.name = "f"
        /\ Len(Stmt.args) # Len(program[1].proto.args))
       => result = [tag |-> "Err",
                    msg |-> <<"Call to ", Bt, "f", "()", Bt, " takes ",
                              ToString(Len(program[1].proto.args)), " args and ",
                              ToString(Len(Stmt.args)), " were given">>]

\* C4 witness: an accepted call f(1, true) of f(p: int32, q: bool)
C4_Witness ==
    /\ result.tag = "Ok"
    /\ IsStmtProgram
    /\ TypedStmt.kind = "Call"
    /\ TypedStmt.name = "f"
    /\ Len(TypedStmt.args) = 2
    /\ NodeTy(TypedStmt.args[1]) = SomeTy(Int32T)
    /\ NodeTy(TypedStmt.args[2]) = SomeTy(BoolT)

\* v is within the range of the integer type W (v is unsigned)
InRange(v, W) ==
    CASE W = Int8T -> v[1] = 0 /\ v[2] = 0 /\ v[3] = 0 /\ v[4] < 2^7
      [] W = Int16T -> v[1] = 0 /\ v[2] = 0 /\ v[3] = 0 /\ v[4] < 2^15
      [] W = Int32T -> v[1] = 0 /\ v[2] = 0 /\ v[3] < 2^15
      [] W = Int64T -> v[1] < 2^15
      [] W = UInt8T -> v[1] = 0 /\ v[2] = 0 /\ v[3] = 0 /\ v[4] < 2^8
      [] W = UInt16T -> v[1] = 0 /\ v[2] = 0 /\ v[3] = 0
      [] W = UInt32T -> v[1] = 0 /\ v[2] = 0
      [] W = UInt64T -> TRUE

\* the statement is `let x: <antn> = <integer literal>`
IsLetOfIntLiteral ==
    /\ IsStmtProgram
    /\ Stmt.kind = "Let"
    /\ Stmt.init # NoneNode
    /\ Stmt.init[1].kind = "Lit"
    /\ Stmt.init[1].value.lk = "UInt64"

\* C5: `let x: W = v` for an integer width W and a u64 literal v is accepted
\* exactly when v is in the range of W; then the initializer is a literal of
\* value v and type W; otherwise the check ends in "Numeric literal out of range".
C5_IntLiteralNarrowing ==
    (Terminated /\ IsLetOfIntLiteral /\ Stmt.antn \in int_types) =>
        IF InRange(Stmt.init[1].value.v, Stmt.antn)
        THEN /\ result.tag = "Ok"
             /\ TypedStmt.kind = "Let"
             /\ TypedStmt.init # NoneNode
             /\ TypedStmt.init[1].kind = "Lit"
             /\ TypedStmt.init[1].value.lk = Stmt.antn[1]
             /\ TypedStmt.init[1].value.v = Stmt.init[1].value.v
             /\ NodeTy(TypedStmt.init[1]) = SomeTy(Stmt.antn)
        ELSE result = [tag |-> "Err", msg |-> <<"Numeric literal out of range">>]

\* C5 witness: `let x: uint32 = 4294967295` was accepted
C5_Witness ==
    /\ result.tag = "Ok"
    /\ IsLetOfIntLiteral
    /\ Stmt.antn = UInt32T
    /\ Stmt.init[1].value.v = U64(0, 0, 2^16 - 1, 2^16 - 1)
    /\ TypedStmt.init[1].value.v = U64(0, 0, 2^16 - 1, 2^16 - 1)

\* C6 as stated: an integer literal under a Float or Double hint is accepted
\* and retagged to the floating type.
C6_Original ==
    (Terminated /\ IsLetOfIntLiteral /\ Stmt.antn \in float_types
     /\ InRange(Stmt.init[1].value.v, Int8T)) =>
        /\ result.tag = "Ok"
        /\ NodeTy(TypedStmt.init[1]) = SomeTy(Stmt.antn)

\* C6 amended: an integer literal under a Float or Double hint is rejected
\* with "Literal is an integer in a float context", whatever its value.
C6_IntLiteralRejectedInFloatContext ==
    (Terminated /\ IsLetOfIntLiteral /\ Stmt.antn \in float_types) =>
        result = [tag |-> "Err", msg |-> <<"Literal is an integer in a float context">>]

\* C6 witness: `let x: double = 127` has been checked
C6_Witness ==
    /\ Terminated
    /\ IsLetOfIntLiteral
    /\ Stmt.antn = DoubleT
    /\ Stmt.init[1].value.v = U64(0, 0, 0, 2^7 - 1)
    /\ result.tag = "Err"

\* the type of an initializer whose type no hint changes (the parameter a of
\* g, unless the binding declares a itself: see C18)
OwnType(init) ==
    CASE init = Bool(TRUE) -> BoolT
      [] init = Chr(65) -> CharT
      [] init = Id("a") -> Int32T

HasOwnType(init) ==
    \/ init.kind = "Lit" /\ init.value.lk \in {"Bool", "Char"}
    \/ init.kind = "Ident" /\ init.name = "a"

\* the initializer is the name the binding declares
IsDeclaredName(name, init) == init.kind = "Ident" /\ init.name = name

TypesDontMatch(caller, name, antn, init_ty) ==
    <<"Types don't match in ", caller, ". ", Bt, name, Bt, " annotated with ", Bt>>
    \o TypeDisplay(antn) \o <<Bt, " but initial value is ", Bt>> \o TypeDisplay(init_ty)
    \o <<Bt>>

\* the initializer was checked with the annotation as hint
CheckedWithHint(init, antn) ==
    \E i \in 1..Len(log) :
        /\ log[i].ev = "check_node"
        /\ log[i].node.kind = init.kind
        /\ log[i].node = init
        /\ log[i].hint = SomeTy(antn)

\* C7: the initializer of a let or of a for start variable is checked with
\* the annotation as hint; the binding is accepted only if the initializer's
\* type equals the annotation, and otherwise the check ends in "Types don't
\* match in <let statement|for statement>. `<name>` annotated with `<antn>`
\* but initial value is `<init type>`".
C7_InitMustMatchAnnotation ==
    /\ (Terminated /\ IsStmtProgram /\ Stmt.kind = "Let" /\ Stmt.init # NoneNode
        /\ HasOwnType(Stmt.init[1]) /\ ~IsDeclaredName(Stmt.name, Stmt.init[1])) =>
          /\ CheckedWithHint(Stmt.init[1], Stmt.antn)
          /\ IF Stmt.antn = OwnType(Stmt.init[1])
             THEN /\ result.tag = "Ok"
                  /\ NodeTy(TypedStmt.init[1]) = SomeTy(Stmt.antn)
             ELSE result = [tag |-> "Err",
                            msg |-> TypesDontMatch("let statement", Stmt.name, Stmt.antn,
                                                   OwnType(Stmt.init[1]))]
    /\ (Terminated /\ IsStmtProgram /\ Stmt.kind = "For" /\ Stmt.start_expr # NoneNode
        /\ HasOwnType(Stmt.start_expr[1])
        /\ ~IsDeclaredName(Stmt.start_name, Stmt.start_expr[1])) =>
          /\ CheckedWithHint(Stmt.start_expr[1], Stmt.start_antn)
          /\ IF Stmt.start_antn = OwnType(Stmt.start_expr[1])
             THEN result.tag = "Err" => result.msg[1] # "Types don't match in "
             ELSE result = [tag |-> "Err",
                            msg |-> TypesDontMatch("for statement", Stmt.start_name,
                                                   Stmt.start_antn,
                                                   OwnType(Stmt.start_expr[1]))]

\* C7 witness: `let x: int32 = true` was rejected with the message of the spec
C7_Witness ==
    /\ Terminated
    /\ IsStmtProgram
    /\ Stmt.kind = "Let"
    /\ Stmt.antn = Int32T
    /\ Stmt.init = SomeNode(Bool(TRUE))
    /\ result.msg = <<"Types don't match in ", "let statement", ". ", Bt, "x", Bt,
                      " annotated with ", Bt, "int32", Bt, " but initial value is ", Bt,
                      "bool", Bt>>

\* the program is `extern cos ..  fn f ..  fn main() -> RET { body }` and
\* walk has reached main
IsMainProgram ==
    /\ Len(program) = 3
    /\ program[3].kind = "Fn"
    /\ program[3].proto.name = "main"
    /\ program[3].body # NoneNode

MainAnnotationMsg(ret_ty) ==
    <<"main()'s return value shouldn't be annotated. Found ", Bt>> \o TypeDisplay(ret_ty)
    \o <<Bt>>

\* the check_node that returned last returned Ok; at the end of the visit of
\* a function this is the check of its body
LastCheckOk ==
    /\ log # <<>>
    /\ log[Len(log)].ev = "return"
    /\ log[Len(log)].tag = "Ok"

\* C8 as stated: checking a main() that has a body and a declared return
\* type other than Void ends in "main()'s return value shouldn't be
\* annotated. Found `<type>`".
C8_Original ==
    (Terminated /\ IsMainProgram /\ program[3].proto.ret_ty # VoidT) =>
        result = [tag |-> "Err", msg |-> MainAnnotationMsg(program[3].proto.ret_ty)]

\* C8 amended: the body of main() is checked first; when that check succeeds
\* and the declared return type is not Void, the check ends in "main()'s
\* return value shouldn't be annotated. Found `<type>`"; when the body fails,
\* its failure is the outcome.  An accepted main() with a body has the return
\* type Void in the returned prototype, whatever the type of its body.
C8_MainAnnotationRejected ==
    /\ (Terminated /\ IsMainProgram /\ program[3].proto.ret_ty # VoidT) =>
          /\ result.tag # "Ok"
          /\ LastCheckOk =>
                result = [tag |-> "Err", msg |-> MainAnnotationMsg(program[3].proto.ret_ty)]
          /\ ~LastCheckOk => result.msg # MainAnnotationMsg(program[3].proto.ret_ty)
    /\ \A i \in 1..Len(typed_ast) :
          (typed_ast[i].kind = "Fn" /\ typed_ast[i].proto.name = "main"
           /\ typed_ast[i].body # NoneNode) => typed_ast[i].proto.ret_ty = VoidT

\* C8 witness: `fn main() -> int32 { 0 }` was rejected with the message of
\* the spec
C8_Witness ==
    /\ Terminated
    /\ IsMainProgram
    /\ program[3].proto.ret_ty = Int32T
    /\ program[3].body[1].list = <<Num(0)>>
    /\ result.msg = <<"main()'s return value shouldn't be annotated. Found ", Bt, "int32", Bt>>

\* the statement is `let xs: array(T, N) = [ ... ]`
IsLetOfArrayLiteral ==
    /\ IsStmtProgram
    /\ Stmt.kind = "Let"
    /\ Stmt.antn[1] = "Array"
    /\ Stmt.init # NoneNode
    /\ Stmt.init[1].kind = "Lit"
    /\ Stmt.init[1].value.lk = "Array"

\* C9: an array literal under the hint Array(T, N) ends in "Array literal too
\* big in assignment: `<len>` > `<N>`" whenever it has more than N elements,
\* and is not rejected for its length otherwise; an accepted literal has the
\* type Array(T, N) and every element has the type T.
C9_ArrayLiteralLength ==
    (Terminated /\ IsLetOfArrayLiteral) =>
        LET len == ArrayLen(Stmt.init[1].value)
            size == Stmt.antn[3]
        IN  IF ~U64Le(len, FromNat(size))
            THEN result = [tag |-> "Err",
                           msg |-> <<"Array literal too big in assignment: ", Bt>>
                                   \o U64Text(len) \o <<Bt, " > ", Bt, ToString(size), Bt>>]
            ELSE /\ result.tag = "Err" => result.msg[1] # "Array literal too big in assignment: "
                 /\ result.tag = "Ok" =>
                       /\ NodeTy(TypedStmt.init[1]) = SomeTy(Stmt.antn)
                       /\ \A k \in 1..Len(TypedStmt.init[1].value.elements) :
                             NodeTy(TypedStmt.init[1].value.elements[k]) = SomeTy(Stmt.antn[2])

\* the statement is an array literal, or a binary operation whose first
\* checked operand is one: it is checked without a hint
IsUnhintedArrayLiteral ==
    /\ IsStmtProgram
    /\ \/ Stmt.kind = "Lit" /\ Stmt.value.lk = "Array"
       \/ /\ Stmt.kind = "BinOp"
          /\ Stmt.op # "Assign"
          /\ Stmt.lhs.kind = "Lit"
          /\ Stmt.lhs.value.lk = "Array"

\* C10: an array literal checked without a hint is rejected with an error
\* result; the checker neither accepts it nor halts.
C10_UnhintedArrayLiteralRejected ==
    (Terminated /\ IsUnhintedArrayLiteral) => result.tag = "Err"

\* the order in which main runs the stages
StageOrder == <<"lex", "parse", "tych", "lower", "codegen">>

\* the message main writes for a failure of the stage
StageErrorPrefix ==
    [lex |-> "Lexing error: ", parse |-> "Parsing error: ",
     tych |-> "Type checking error: ", lower |-> "Lowering error: ",
     codegen |-> "Error compiling "]

\* the stage returned Err
StageFailed(i) == stage_log[i].outcome = "Err"

\* C11: main starts the stages in the order lex, parse, type check, lower,
\* code generation; a stage that returns an error is the last one started,
\* its message is on standard error and the process exits with code 1; the
\* process exits with code 0 only after all five stages returned Ok.
C11_StagesInOrderFailureExitsOne ==
    /\ Len(stage_log) <= Len(StageOrder)
    /\ \A i \in 1..Len(stage_log) :
          /\ stage_log[i].stage = StageOrder[i]
          /\ i < Len(stage_log) => stage_log[i].outcome = "Ok"
          /\ StageFailed(i) =>
                /\ stderr # <<>>
                /\ Head(stderr[Len(stderr)]) = StageErrorPrefix[stage_log[i].stage]
                /\ exit_code = <<1>>
    /\ exit_code = <<0>> =>
          /\ Len(stage_log) = Len(StageOrder)
          /\ \A i \in 1..Len(stage_log) : stage_log[i].outcome = "Ok"

\* the thirteen primitive variants of Type
PrimitiveTags ==
    {"Int8", "Int16", "Int32", "Int64", "UInt8", "UInt16", "UInt32", "UInt64",
     "Float", "Double", "Bool", "Char", "Void"}

\* the type the claim gives to a name
ClaimedType(name) ==
    IF \E tag \in PrimitiveTags : LowerName(tag) = name
    THEN <<CHOOSE tag \in PrimitiveTags : LowerName(tag) = name>>
    ELSE IF name = "int" THEN Int32T
    ELSE IF name = "uint" THEN UInt32T
    ELSE CompT(name)

\* C12: every annotation resolved so far has the type the claim gives it:
\* the lower-case name of a primitive variant gives that variant, 'int' gives
\* Int32, 'uint' gives UInt32, every other string s gives Comp(s), and an
\* absent annotation gives the default type, Void.
C12_ResolveType ==
    \A i \in 1..Len(resolved) :
        LET r == resolved[i]
        IN  IF r.antn = <<>> THEN r.ty = VoidT ELSE r.ty = ClaimedType(r.antn[1])

\* C12 witness: a run that resolved a differently-cased spelling to Comp and
\* the alias 'uint' to UInt32
C12_Witness ==
    /\ annotations = <<>>
    /\ Len(resolved) = 2
    /\ resolved[1] = [antn |-> <<"Int32">>, ty |-> CompT("Int32")]
    /\ resolved[2] = [antn |-> <<"uint">>, ty |-> UInt32T]

\* character i of the text belongs to a line comment: a `//` at or before it
\* on the same line (texts over Alphabet hold no character literal)
InComment(src, i) ==
    \E j \in 1..i :
        /\ j < Len(src)
        /\ src[j] = "/"
        /\ src[j + 1] = "/"
        /\ \A k \in j..i : src[k] # "\n"

\* the text without the characters of its comments
RECURSIVE StripFrom(_, _)
StripFrom(src, i) ==
    IF i > Len(src) THEN <<>>
    ELSE (IF InComment(src, i) THEN <<>> ELSE <<src[i]>>) \o StripFrom(src, i + 1)

Strip(src) == StripFrom(src, 1)

\* the tokens without their positions
Texts(toks) == [i \in 1..Len(toks) |-> [kind |-> toks[i].kind, text |-> toks[i].text]]

\* the lines of the text that begin a comment in their first column
CommentLines(src) ==
    {j \in 1..Len(src) : /\ j < Len(src) /\ src[j] = "/" /\ src[j + 1] = "/"
                          /\ (j = 1 \/ src[j - 1] = "\n")}

\* C13: no token scanned holds a character of a line comment, and when the
\* scan has ended it ended as the scan of the text without its comments
\* ends, with the same tokens in the same order: without error when that
\* text has none.
C13_CommentsProduceNoToken ==
    /\ \A t \in 1..Len(tokens) :
          \A k \in tokens[t].at..(tokens[t].at + Len(tokens[t].text) - 1) :
              ~InComment(source, k)
    /\ lex_result \notin {"Running", "Idle"} =>
          /\ lex_result = scan(Strip(source)).result
          /\ Texts(tokens) = Texts(scan(Strip(source)).tokens)

\* C13 witness: a scan that ended without error on a text with a token, two
\* comment lines one after the other, the last one ending the text without
\* a newline
C13_Witness ==
    /\ lex_result = "Ok"
    /\ tokens # <<>>
    /\ \E j1, j2 \in CommentLines(source) :
          /\ j1 < j2
          /\ end_of_line(source, j1) + 1 = j2
    /\ InComment(source, Len(source))
    /\ source[Len(source)] # "/"

\* the inserts of variable symbols made by the checker so far (the function
\* and struct symbols are inserted by the parser)
Inserts == SelectSeq(log, LAMBDA e : e.ev = "insert")

\* C14: every variable symbol the checker inserts is inserted while the
\* innermost scope is one entered by visit_fn, visit_for or visit_block,
\* never while it is the global scope (the scope at depth 1).
C14_NoVariableInGlobalScope ==
    \A i \in 1..Len(Inserts) : Inserts[i].depth > 1

\* C15: when a descent into a child (check_node) returns, the visitor's hint
\* is the value it had immediately before that descent set it to the hint
\* chosen for the child.
C15_HintRestoredOnReturn ==
    \A i \in 1..Len(log) :
        log[i].ev = "return" => log[i].after = log[i].before

\* the number of descents begun in log[i..j] minus the number returned
RECURSIVE Open(_, _)
Open(i, j) ==
    IF j < i THEN 0
    ELSE Open(i, j - 1) + (IF log[j].ev = "check_node" THEN 1
                           ELSE IF log[j].ev = "return" THEN -1 ELSE 0)

\* the index of the return of the descent begun at log[i] (0 if none)
ReturnOf(i) ==
    IF \E j \in (i + 1)..Len(log) : Open(i, j) = 0
    THEN CHOOSE j \in (i + 1)..Len(log) :
            Open(i, j) = 0 /\ \A k \in (i + 1)..(j - 1) : Open(i, k) # 0
    ELSE 0

\* log[i] begins the check of a binary operation that went on to check an
\* operand
IsBinopCheck(i) ==
    /\ log[i].ev = "check_node"
    /\ log[i].node.kind = "BinOp"
    /\ i < Len(log)
    /\ log[i + 1].ev = "check_node"

\* the operands of the binary operation checked at log[i] were checked in
\* the order first, second: first without a hint, second (when the check of
\* first succeeded) with the type of first as hint
CheckedInOrder(i, first, second) ==
    /\ log[i + 1].node = first
    /\ log[i + 1].hint = NoneTy
    /\ LET j == ReturnOf(i + 1)
       IN  (j # 0 /\ log[j].tag = "Ok") =>
              /\ j < Len(log)
              /\ log[j + 1].ev = "check_node"
              /\ log[j + 1].node = second
              /\ log[j + 1].hint = SomeTy(unwrap_or_default(log[j].ty))

\* C16 as stated: when exactly one operand is a numeric literal the other
\* operand is checked first; when neither or both are, the LHS is checked
\* first.
C16_Original ==
    \A i \in 1..Len(log) :
        IsBinopCheck(i) =>
            LET e == log[i].node
            IN  IF is_num_literal(e.lhs) /\ ~is_num_literal(e.rhs)
                THEN CheckedInOrder(i, e.rhs, e.lhs)
                ELSE CheckedInOrder(i, e.lhs, e.rhs)

\* C16 amended: when the LHS is a numeric literal, also when the RHS is one
\* too, the RHS is checked first without a hint and the LHS then with the
\* type of the RHS as hint; in every other case the LHS is checked first
\* without a hint and the RHS then with the type of the LHS as hint.
C16_LiteralLhsChecksRhsFirst ==
    \A i \in 1..Len(log) :
        IsBinopCheck(i) =>
            LET e == log[i].node
            IN  IF is_num_literal(e.lhs)
                THEN CheckedInOrder(i, e.rhs, e.lhs)
                ELSE CheckedInOrder(i, e.lhs, e.rhs)

\* C16 witness: `1 + 1.5` was checked: first 1.5 without a hint, then 1
\* with the hint Float
C16_Witness ==
    /\ IsStmtProgram
    /\ Stmt = Bin("Add", Num(1), Flt("1.5"))
    /\ \E i \in 1..Len(log) :
          /\ IsBinopCheck(i)
          /\ log[i].node = Stmt
          /\ log[i + 1].node = Flt("1.5")
          /\ ReturnOf(i + 1) # 0
          /\ log[ReturnOf(i + 1) + 1].ev = "check_node"
          /\ log[ReturnOf(i + 1) + 1].node = Num(1)
          /\ log[ReturnOf(i + 1) + 1].hint = SomeTy(FloatT)

\* the names of the parameters of g, which shadow the global scope in its body
ParamNames == {Params[i][1] : i \in 1..Len(Params)}

\* the callee of the statement resolves, innermost scope first, to a function
CalleeIsFunction ==
    /\ Stmt.name \notin ParamNames
    /\ Stmt.name \in DOMAIN ParsedTable(program)[1]
    /\ ParsedTable(program)[1][Stmt.name].data = "Fn"

\* C17: a call statement is accepted only when its callee resolves to a
\* function symbol; when the callee resolves to no symbol or to a symbol that
\* is not a function (here a parameter of the enclosing function), the check
\* ends with an error result.
C17_CallOfNonFunctionIsAnError ==
    (Terminated /\ IsStmtProgram /\ Stmt.kind = "Call") =>
        /\ result.tag = "Ok" => CalleeIsFunction
        /\ ~CalleeIsFunction => result.tag = "Err"

\* the statement of g is a let
IsLetStmt == IsStmtProgram /\ Stmt.kind = "Let"

\* log[i] is the insert of the variable the let declares, with its annotated
\* type, into the scope of the body block of g (global scope, scope of the
\* parameters, scope of the block)
IsLetInsert(i) ==
    log[i] = [ev |-> "insert", name |-> Stmt.name, ty |-> Stmt.antn, depth |-> 3]

\* C18: the check of a let statement inserts the declared variable with its
\* annotated type into the innermost scope and only then checks the
\* initializer; an initializer that is the declared name itself resolves to
\* the new binding, so it has the annotated type and the let is accepted, also
\* when an outer variable of another type has that name; and when the check
\* of the let fails the binding is still in the innermost scope.
C18_LetBindsBeforeInit ==
    (Terminated /\ IsLetStmt) =>
        /\ \E i \in 1..Len(log) :
              /\ IsLetInsert(i)
              /\ Stmt.init # NoneNode =>
                    /\ i < Len(log)
                    /\ log[i + 1].ev = "check_node"
                    /\ log[i + 1].node = Stmt.init[1]
                    /\ \A k \in 1..(i - 1) :
                          ~(log[k].ev = "check_node" /\ log[k].node = Stmt.init[1])
        /\ Stmt.init = SomeNode(Id(Stmt.name)) =>
              /\ result.tag = "Ok"
              /\ TypedStmt.init = SomeNode(new_ident(Stmt.name, SomeTy(Stmt.antn)))
        /\ result.tag # "Ok" =>
              /\ Len(symbol_table) = 3
              /\ Stmt.name \in DOMAIN symbol_table[3]
              /\ get(symbol_table, Stmt.name) = <<new_var(Stmt.name, Stmt.antn)>>

\* C18 witness: `let a: bool = a` in the body of g, whose parameter a is an
\* int32, was accepted
C18_Witness ==
    /\ IsLetStmt
    /\ Stmt = Let("a", BoolT, SomeNode(Id("a")))
    /\ result.tag = "Ok"
    /\ TypedStmt.init = SomeNode(new_ident("a", SomeTy(BoolT)))

\* a let whose check failed after the insert: `let x: int32 = u`, u unknown
C18_WitnessFailed ==
    /\ IsLetStmt
    /\ Stmt = Let("x", Int32T, SomeNode(Id("u")))
    /\ result.tag = "Err"
    /\ get(symbol_table, "x") = <<new_var("x", Int32T)>>

====
